---- MODULE Spec2Model ----
(***************************************************************************)
(* Idempotent ledger-write path of propets.                                *)
(*                                                                         *)
(* The store is the MySQL/InnoDB schema of db/init.sql: two tables,        *)
(* ledger_entries (AUTO_INCREMENT primary key) and ledger_idempotency_keys *)
(* (primary key request_id).  Every call of CreateEntryWithRequestID runs  *)
(* in its own transaction: its writes are private until tx.Commit, a       *)
(* primary-key insert waits while another open transaction holds an        *)
(* uncommitted row with the same key, and reads see committed rows only.   *)
(* Each statement of the Go code is one step of the call that issues it.   *)
(***************************************************************************)
EXTENDS Integers, FiniteSets, Sequences, TLC

\* Number of calls of CreateDonation / CreateExpense in one run.
MaxCalls == 2

Calls == 1..MaxCalls

\* Values the callers supply.
RequestIDs == {"r1", "r2"}
Users == {1, 2}
Payloads ==
    { [amount |-> "100.00", at |-> 1, who |-> "Alice"],
      [amount |-> "50.00", at |-> 2, who |-> "Bob"] }

\* model.LedgerEntryTypeDonation / model.LedgerEntryTypeExpense
LedgerEntryTypeDonation == "donation"
LedgerEntryTypeExpense == "expense"

\* SQL NULL of the nullable columns entry_id, deleted_at, deleted_by.
NULL == 0

\* The errors a call can end in.
ErrIdempotencyConflict == "Conflict"
ErrIdempotencyRequestLocked == "RequestInProgress"
ErrStorage == "StorageError"
NoError == "nil"

VARIABLES
    ledger_entries,           \* committed rows of ledger_entries, by id
    ledger_idempotency_keys,  \* committed rows of ledger_idempotency_keys, by request_id
    auto_increment,           \* next AUTO_INCREMENT value of ledger_entries.id
    pc,                       \* per call: the statement it is about to run
    input,                    \* per call: CreateLedgerEntryInput
    request,                  \* per call: what the caller asked for (request id, actor, kind)
    txKey,                    \* per call: its uncommitted idempotency row, or NoRow
    txEntry,                  \* per call: its uncommitted ledger entry, or NoRow
    insertedID,               \* per call: local insertedID (0 before the insert)
    existingID,               \* per call: local existingID (0 unless reused)
    result,                   \* per call: what the call returned
    users,                    \* rows of users, by id
    refresh_tokens            \* rows of refresh_tokens, by token_hash

vars == << ledger_entries, ledger_idempotency_keys, auto_increment, pc, input,
           request, txKey, txEntry, insertedID, existingID, result, users,
           refresh_tokens >>

\* The tables of the accounts: no ledger operation reads or writes them (an
\* access token is checked by its signature and claims alone).
auth == << users, refresh_tokens >>

store == << ledger_entries, ledger_idempotency_keys >>

NoRow == [none |-> TRUE]
NoInput == [none |-> TRUE]
NoResult == [none |-> TRUE]
NoRequest == [none |-> TRUE]

\* What identifies the logical write a caller asks for: DonationInput /
\* ExpenseInput's RequestID and ActorUserID, and which of the two it is.
Request(rid, actor, operation) ==
    [RequestID |-> rid, ActorUserID |-> actor, Operation |-> operation]

\* (uint64, bool, error) as returned by CreateEntryWithRequestID.
Returned(id, reused, err) == [entryID |-> id, wasReplayed |-> reused, err |-> err]

\* A row of ledger_entries as insertLedgerEntrySQL writes it: the soft-delete
\* columns take their DEFAULT NULL.
EntryRow(in) ==
    [ user_id |-> in.UserID, entry_type |-> in.EntryType, amount |-> in.Amount,
      occurred_at |-> in.OccurredAt, description |-> in.Description,
      deleted_at |-> NULL, deleted_by |-> NULL ]

\* Variant: the arguments of insertLedgerIdempotencySQL are bound in the wrong
\* order, the record names the donation operation whatever the entry is.
KeyRowAlwaysDonation(operation, createdBy) ==
    [ operation |-> LedgerEntryTypeDonation, created_by |-> createdBy, entry_id |-> NULL ]

\* A row of ledger_idempotency_keys as insertLedgerIdempotencySQL writes it.
KeyRow(operation, createdBy) ==
    [ operation |-> operation, created_by |-> createdBy, entry_id |-> NULL ]

\* The CreateLedgerEntryInput that CreateDonation hands to the repository.
DonationEntryInput(actor, p) ==
    [ UserID |-> actor, EntryType |-> LedgerEntryTypeDonation, Amount |-> p.amount,
      OccurredAt |-> p.at, Description |-> << "donor", p.who >> ]

\* The CreateLedgerEntryInput that CreateExpense hands to the repository.
ExpenseEntryInput(actor, p) ==
    [ UserID |-> actor, EntryType |-> LedgerEntryTypeExpense, Amount |-> p.amount,
      OccurredAt |-> p.at, Description |-> << "purpose", "food", "handled_by", p.who >> ]

(***************************************************************************)
(* The store: unique key, row locks, transaction commit and rollback.      *)
(***************************************************************************)

\* Variant: the table has no unique key on request_id.
NoUniqueKey(rid) == FALSE

\* PRIMARY KEY (request_id): the insert of insertLedgerIdempotencySQL is
\* answered "Duplicate entry" exactly when a committed row has that key.
DuplicateKey(rid) == rid \in DOMAIN ledger_idempotency_keys

\* InnoDB: an insert of a key waits while another open transaction holds an
\* uncommitted row with the same primary key.
KeyHeldByOther(c, rid) ==
    \E d \in Calls \ {c} : txKey[d] # NoRow /\ request[d].RequestID = rid

\* Variant: the entry insert is not part of the committed transaction.
CommitEntriesLost(c) == ledger_entries

\* Variant: a replay overwrites the existing entry with the new payload.
CommitEntriesUpsert(c) ==
    IF txEntry[c] # NoRow THEN (insertedID[c] :> txEntry[c]) @@ ledger_entries
    ELSE IF existingID[c] \in DOMAIN ledger_entries
    THEN [ledger_entries EXCEPT ![existingID[c]] = EntryRow(input[c])]
    ELSE ledger_entries

\* tx.Commit: the rows of ledger_entries afterwards.
CommitEntries(c) ==
    IF txEntry[c] = NoRow THEN ledger_entries
    ELSE (insertedID[c] :> txEntry[c]) @@ ledger_entries

\* Variant: the backfill of entry_id is not part of the committed transaction.
CommitKeysWithoutBackfill(c) ==
    IF txKey[c] = NoRow THEN ledger_idempotency_keys
    ELSE (request[c].RequestID :> [txKey[c] EXCEPT !.entry_id = NULL])
             @@ ledger_idempotency_keys

\* Variant: updateLedgerIdempotencyResultSQL lacks "WHERE request_id = ?", the
\* backfill sets the entry_id of every record.
CommitKeysBackfillAll(c) ==
    IF txKey[c] = NoRow THEN ledger_idempotency_keys
    ELSE (request[c].RequestID :> txKey[c])
             @@ [ r \in DOMAIN ledger_idempotency_keys |->
                    [ledger_idempotency_keys[r] EXCEPT !.entry_id = txKey[c].entry_id] ]

\* tx.Commit: the rows of ledger_idempotency_keys afterwards.
CommitKeys(c) ==
    IF txKey[c] = NoRow THEN ledger_idempotency_keys
    ELSE (request[c].RequestID :> txKey[c]) @@ ledger_idempotency_keys

\* Variant: the entry insert runs outside the transaction and survives it.
RollbackKeepsEntry(c) ==
    IF txEntry[c] = NoRow THEN ledger_entries
    ELSE (insertedID[c] :> txEntry[c]) @@ ledger_entries

\* Variant: the reservation insert runs outside the transaction and survives it.
RollbackKeepsKey(c) ==
    IF txKey[c] = NoRow THEN ledger_idempotency_keys
    ELSE (request[c].RequestID :> txKey[c]) @@ ledger_idempotency_keys

\* tx.Rollback (the deferred rollback, or the one database/sql runs when the
\* context is cancelled): the rows of ledger_entries afterwards.
RollbackEntries(c) == ledger_entries

\* tx.Rollback: the rows of ledger_idempotency_keys afterwards.
RollbackKeys(c) == ledger_idempotency_keys

\* Variant: the scanned columns are mixed up, created_by is returned as the id.
reserveReturnsCreatedBy(existing, operation, createdBy) ==
    IF existing.operation # operation \/ existing.created_by # createdBy
    THEN Returned(0, FALSE, ErrIdempotencyConflict)
    ELSE IF existing.entry_id = NULL
    THEN Returned(0, FALSE, ErrIdempotencyRequestLocked)
    ELSE Returned(existing.created_by, TRUE, NoError)

\* Variant: operation and actor of the existing row are not compared.
reserveSkipsIdentityCheck(existing, operation, createdBy) ==
    IF existing.entry_id = NULL
    THEN Returned(0, FALSE, ErrIdempotencyRequestLocked)
    ELSE Returned(existing.entry_id, TRUE, NoError)

\* Variant: the test of existingEntryID.Valid is inverted.
reserveInvertedValid(existing, operation, createdBy) ==
    IF existing.operation # operation \/ existing.created_by # createdBy
    THEN Returned(0, FALSE, ErrIdempotencyConflict)
    ELSE IF existing.entry_id # NULL
    THEN Returned(0, FALSE, ErrIdempotencyRequestLocked)
    ELSE Returned(existing.entry_id, TRUE, NoError)

\* Variant: existingEntryID.Valid is not tested.
reserveNullAsReplay(existing, operation, createdBy) ==
    IF existing.operation # operation \/ existing.created_by # createdBy
    THEN Returned(0, FALSE, ErrIdempotencyConflict)
    ELSE Returned(existing.entry_id, TRUE, NoError)

(***************************************************************************)
(* reserveIdempotencyKey, after the insert was answered "duplicate": the   *)
(* decision taken on the row read by findLedgerIdempotencySQL.             *)
(***************************************************************************)
reserveIdempotencyKey(existing, operation, createdBy) ==
    IF existing.operation # operation \/ existing.created_by # createdBy
    THEN Returned(0, FALSE, ErrIdempotencyConflict)
    ELSE IF existing.entry_id = NULL
    THEN Returned(0, FALSE, ErrIdempotencyRequestLocked)
    ELSE Returned(existing.entry_id, TRUE, NoError)

(***************************************************************************)
(* Steps of one call.                                                      *)
(***************************************************************************)

\* The call returns: its transaction is over and its locals (input,
\* insertedID, existingID) are dead; the caller keeps the request it made
\* and what it was answered.
Return(c, res) ==
    /\ pc' = [pc EXCEPT ![c] = "done"]
    /\ result' = [result EXCEPT ![c] = res]
    /\ txKey' = [txKey EXCEPT ![c] = NoRow]
    /\ txEntry' = [txEntry EXCEPT ![c] = NoRow]
    /\ input' = [input EXCEPT ![c] = NoInput]
    /\ insertedID' = [insertedID EXCEPT ![c] = 0]
    /\ existingID' = [existingID EXCEPT ![c] = 0]

\* Variant: on an error the transaction is rolled back and the call starts
\* over with the reservation.
AbortAndRetry(c, err) ==
    /\ ledger_entries' = RollbackEntries(c)
    /\ ledger_idempotency_keys' = RollbackKeys(c)
    /\ pc' = [pc EXCEPT ![c] = "reserve"]
    /\ txKey' = [txKey EXCEPT ![c] = NoRow]
    /\ txEntry' = [txEntry EXCEPT ![c] = NoRow]
    /\ UNCHANGED << input, insertedID, existingID, result >>

\* Variant: the deferred function commits instead of rolling back, an error
\* return leaves behind what the transaction had written.
AbortCommits(c, err) ==
    /\ ledger_entries' = CommitEntries(c)
    /\ ledger_idempotency_keys' = CommitKeys(c)
    /\ Return(c, Returned(0, FALSE, err))

\* An error return of CreateEntryWithRequestID: the deferred function rolls
\* the transaction back.
Abort(c, err) ==
    /\ ledger_entries' = RollbackEntries(c)
    /\ ledger_idempotency_keys' = RollbackKeys(c)
    /\ Return(c, Returned(0, FALSE, err))

\* repo.CreateEntryWithRequestID is entered with `in` and `rid`: BeginTx
\* either opens the transaction or fails.  Calls are numbered in the order
\* in which they arrive.
Enter(c, in, rid) ==
    /\ pc[c] = "idle"
    /\ \A d \in Calls : d < c => pc[d] # "idle"
    /\ request' = [request EXCEPT ![c] = Request(rid, in.UserID, in.EntryType)]
    /\ \/ /\ pc' = [pc EXCEPT ![c] = "reserve"]
          /\ input' = [input EXCEPT ![c] = in]
          /\ UNCHANGED << result, txKey, txEntry, insertedID, existingID >>
       \/ Return(c, Returned(0, FALSE, ErrStorage))
    /\ UNCHANGED << ledger_entries, ledger_idempotency_keys, auto_increment, auth >>

CreateDonation(c) ==
    \E actor \in Users, p \in Payloads, rid \in RequestIDs :
        Enter(c, DonationEntryInput(actor, p), rid)

CreateExpense(c) ==
    \E actor \in Users, p \in Payloads, rid \in RequestIDs :
        Enter(c, ExpenseEntryInput(actor, p), rid)

\* reserveIdempotencyKey: the insert succeeds, the key is reserved.
ReserveKey(c) ==
    /\ pc[c] = "reserve"
    /\ ~DuplicateKey(request[c].RequestID)
    /\ ~KeyHeldByOther(c, request[c].RequestID)
    /\ txKey' = [txKey EXCEPT ![c] = KeyRow(input[c].EntryType, input[c].UserID)]
    /\ pc' = [pc EXCEPT ![c] = "insertEntry"]
    /\ UNCHANGED << ledger_entries, ledger_idempotency_keys, auto_increment, auth, input,
                    request, txEntry, insertedID, existingID, result >>

\* reserveIdempotencyKey: the insert is answered "duplicate".
ReserveDuplicate(c) ==
    /\ pc[c] = "reserve"
    /\ DuplicateKey(request[c].RequestID)
    /\ ~KeyHeldByOther(c, request[c].RequestID)
    /\ pc' = [pc EXCEPT ![c] = "find"]
    /\ UNCHANGED << ledger_entries, ledger_idempotency_keys, auto_increment, auth, input,
                    request, txKey, txEntry, insertedID, existingID, result >>

\* reserveIdempotencyKey: the insert fails with another error (also while it
\* waits for the key: a lock wait timeout).
ReserveError(c) ==
    /\ pc[c] = "reserve"
    /\ Abort(c, ErrStorage)
    /\ UNCHANGED << auto_increment, auth, request >>

\* reserveIdempotencyKey: the existing row is read and judged.
FindExisting(c) ==
    /\ pc[c] = "find"
    /\ IF request[c].RequestID \notin DOMAIN ledger_idempotency_keys
       THEN Abort(c, ErrStorage)
       ELSE LET r == reserveIdempotencyKey(ledger_idempotency_keys[request[c].RequestID],
                                           input[c].EntryType, input[c].UserID)
            IN  IF r.err # NoError
                THEN Abort(c, r.err)
                ELSE /\ existingID' = [existingID EXCEPT ![c] = r.entryID]
                     /\ pc' = [pc EXCEPT ![c] = "commitReplay"]
                     /\ UNCHANGED << ledger_entries, ledger_idempotency_keys, txKey,
                                     txEntry, result, input, insertedID >>
    /\ UNCHANGED << auto_increment, auth, request >>

\* reserveIdempotencyKey: the read of the existing row fails.
FindError(c) ==
    /\ pc[c] = "find"
    /\ Abort(c, ErrStorage)
    /\ UNCHANGED << auto_increment, auth, request >>

\* reused: tx.Commit succeeds and the existing id is returned.
CommitReplay(c) ==
    /\ pc[c] = "commitReplay"
    /\ ledger_entries' = CommitEntries(c)
    /\ ledger_idempotency_keys' = CommitKeys(c)
    /\ Return(c, Returned(existingID[c], TRUE, NoError))
    /\ UNCHANGED << auto_increment, auth, request >>

\* reused: tx.Commit fails.
ReplayCommitError(c) ==
    /\ pc[c] = "commitReplay"
    /\ Abort(c, ErrStorage)
    /\ UNCHANGED << auto_increment, auth, request >>

\* insertLedgerEntrySQL succeeds: the row takes the next AUTO_INCREMENT id.
InsertEntry(c) ==
    /\ pc[c] = "insertEntry"
    /\ txEntry' = [txEntry EXCEPT ![c] = EntryRow(input[c])]
    /\ insertedID' = [insertedID EXCEPT ![c] = auto_increment]
    /\ auto_increment' = auto_increment + 1
    /\ UNCHANGED auth
    /\ pc' = [pc EXCEPT ![c] = "backfill"]
    /\ UNCHANGED << ledger_entries, ledger_idempotency_keys, input, request,
                    txKey, existingID, result >>

\* insertLedgerEntrySQL fails.
InsertEntryError(c) ==
    /\ pc[c] = "insertEntry"
    /\ Abort(c, ErrStorage)
    /\ UNCHANGED << auto_increment, auth, request >>

\* res.LastInsertId fails: the row was inserted and its id is used up.
LastInsertIdError(c) ==
    /\ pc[c] = "insertEntry"
    /\ auto_increment' = auto_increment + 1
    /\ UNCHANGED auth
    /\ Abort(c, ErrStorage)
    /\ UNCHANGED request

\* updateLedgerIdempotencyResultSQL succeeds.
Backfill(c) ==
    /\ pc[c] = "backfill"
    /\ txKey' = [txKey EXCEPT ![c] = [txKey[c] EXCEPT !.entry_id = insertedID[c]]]
    /\ pc' = [pc EXCEPT ![c] = "commit"]
    /\ UNCHANGED << ledger_entries, ledger_idempotency_keys, auto_increment, auth, input,
                    request, txEntry, insertedID, existingID, result >>

\* updateLedgerIdempotencyResultSQL fails.
BackfillError(c) ==
    /\ pc[c] = "backfill"
    /\ Abort(c, ErrStorage)
    /\ UNCHANGED << auto_increment, auth, request >>

\* tx.Commit succeeds: the key and the entry become visible together.
Commit(c) ==
    /\ pc[c] = "commit"
    /\ ledger_entries' = CommitEntries(c)
    /\ ledger_idempotency_keys' = CommitKeys(c)
    /\ Return(c, Returned(insertedID[c], FALSE, NoError))
    /\ UNCHANGED << auto_increment, auth, request >>

\* tx.Commit fails.
CommitError(c) ==
    /\ pc[c] = "commit"
    /\ Abort(c, ErrStorage)
    /\ UNCHANGED << auto_increment, auth, request >>

\* The caller's context is cancelled while the transaction is open:
\* database/sql rolls it back and the statement in hand returns the error.
ContextCancelled(c) ==
    /\ pc[c] \in {"reserve", "find", "commitReplay", "insertEntry", "backfill", "commit"}
    /\ Abort(c, ErrStorage)
    /\ UNCHANGED << auto_increment, auth, request >>

(***************************************************************************)
(* Specifications.                                                         *)
(***************************************************************************)

EmptyTable == [k \in {} |-> NoRow]

InitCalls ==
    /\ users = EmptyTable
    /\ refresh_tokens = EmptyTable
    /\ pc = [c \in Calls |-> "idle"]
    /\ input = [c \in Calls |-> NoInput]
    /\ request = [c \in Calls |-> NoRequest]
    /\ txKey = [c \in Calls |-> NoRow]
    /\ txEntry = [c \in Calls |-> NoRow]
    /\ insertedID = [c \in Calls |-> 0]
    /\ existingID = [c \in Calls |-> 0]
    /\ result = [c \in Calls |-> NoResult]

\* The schema of db/init.sql freshly created: both tables empty.
Init ==
    /\ ledger_entries = EmptyTable
    /\ ledger_idempotency_keys = EmptyTable
    /\ auto_increment = 1
    /\ InitCalls

Next ==
    \E c \in Calls :
        \/ CreateDonation(c)
        \/ CreateExpense(c)
        \/ ReserveKey(c)
        \/ ReserveDuplicate(c)
        \/ ReserveError(c)
        \/ FindExisting(c)
        \/ FindError(c)
        \/ CommitReplay(c)
        \/ ReplayCommitError(c)
        \/ InsertEntry(c)
        \/ InsertEntryError(c)
        \/ LastInsertIdError(c)
        \/ Backfill(c)
        \/ BackfillError(c)
        \/ Commit(c)
        \/ CommitError(c)
        \/ ContextCancelled(c)

Spec == Init /\ [][Next]_vars

\* The store holds a row of ledger_idempotency_keys whose entry_id is NULL,
\* as the schema admits (entry_id BIGINT UNSIGNED NULL) and
\* reserveIdempotencyKey provides for: request id "r1" is reserved for a
\* donation of user 1 and was never finalised.
InitReserved ==
    /\ ledger_entries = EmptyTable
    /\ ledger_idempotency_keys = ("r1" :> KeyRow(LedgerEntryTypeDonation, 1))
    /\ auto_increment = 1
    /\ InitCalls

SpecReserved == InitReserved /\ [][Next]_vars

(***************************************************************************)
(* Vocabulary of the properties.                                           *)
(***************************************************************************)

Started(c) == pc[c] # "idle"
Done(c) == pc[c] = "done"

\* The call was answered (entryID, wasReplayed) without an error.
Succeeded(c) == Done(c) /\ result[c].err = NoError

\* The call performed the insert: it returned (id, false).
Created(c) == Succeeded(c) /\ ~result[c].wasReplayed

\* The call was answered with the result of an earlier write: (id, true).
Replayed(c) == Succeeded(c) /\ result[c].wasReplayed

\* The call ended in a storage failure or a cancellation.
Failed(c) == Done(c) /\ result[c].err = ErrStorage

CallsWith(rid) == { c \in Calls : Started(c) /\ request[c].RequestID = rid }

\* The visible ledger entries created by calls with request id rid.
EntriesCreatedFor(rid) ==
    { e \in DOMAIN ledger_entries :
        \E c \in CallsWith(rid) : Created(c) /\ result[c].entryID = e }

\* This step is the one in which call c returns.
Returns(c) == pc[c] # "done" /\ pc'[c] = "done"

\* The existing row was written for another operation or by another actor.
OtherIdentity(row, req) ==
    row.operation # req.Operation \/ row.created_by # req.ActorUserID

(***************************************************************************)
(* C1. At-most-once: whatever the number and interleaving of the calls     *)
(* made with one request id, at most one ledger entry is ever created for  *)
(* it, every visible entry was created by exactly one call, and as soon as *)
(* one of the calls has been answered without error exactly one entry      *)
(* exists for the request id.                                              *)
(***************************************************************************)
C1_AtMostOnce ==
    /\ \A rid \in RequestIDs :
        /\ Cardinality({ c \in CallsWith(rid) : Created(c) }) <= 1
        /\ Cardinality(EntriesCreatedFor(rid)) <= 1
        /\ (\E c \in CallsWith(rid) : Succeeded(c))
              => Cardinality(EntriesCreatedFor(rid)) = 1
    /\ \A e \in DOMAIN ledger_entries :
        Cardinality({ c \in Calls : Created(c) /\ result[c].entryID = e }) = 1

\* Two overlapping calls with the same request id, operation and actor: the
\* one that started first was answered with the entry the later one created.
C1_Witness ==
    \E c, d \in Calls :
        /\ d < c
        /\ request[c] = request[d]
        /\ Created(c)
        /\ Replayed(d)
        /\ result[d].entryID = result[c].entryID
        /\ Cardinality(DOMAIN ledger_entries) = 1

(***************************************************************************)
(* C2. Among the calls made with one request id, operation and actor:      *)
(* all successful ones return the same entry id; once one has succeeded,   *)
(* exactly one has returned wasReplayed = false; every other one returned  *)
(* a replay or RequestInProgress (or failed in the store), never Conflict. *)
(***************************************************************************)
C2_SameIdOneInsert ==
    \A rid \in RequestIDs :
        (\A c, d \in CallsWith(rid) : request[c] = request[d]) =>
            /\ \A c, d \in CallsWith(rid) :
                  Succeeded(c) /\ Succeeded(d) => result[c].entryID = result[d].entryID
            /\ (\E c \in CallsWith(rid) : Succeeded(c))
                  => Cardinality({ c \in CallsWith(rid) : Created(c) }) = 1
            /\ \A c \in CallsWith(rid) :
                  Done(c) => \/ Created(c)
                             \/ Replayed(c)
                             \/ result[c].err = ErrIdempotencyRequestLocked
                             \/ Failed(c)

\* User 2's write was created as entry 1 and replayed to a second call.
C2_Witness ==
    \E c, d \in Calls :
        /\ c # d
        /\ Done(c) /\ Done(d)
        /\ request[c] = request[d]
        /\ request[c].ActorUserID = 2
        /\ result[c] = Returned(1, FALSE, NoError)
        /\ result[d] = Returned(1, TRUE, NoError)

(***************************************************************************)
(* C3. Conflict detection: a call that returns while the committed record  *)
(* of its request id carries another operation or another actor returns    *)
(* Conflict (unless the store failed it), whether the record's entry_id is *)
(* set or not; it is not answered with an entry id and the step leaves     *)
(* both tables as they were; such a call never holds a reservation.        *)
(***************************************************************************)
C3_ConflictStep(c) ==
    LET rid == request'[c].RequestID IN
    (/\ Returns(c)
     /\ rid \in DOMAIN ledger_idempotency_keys
     /\ OtherIdentity(ledger_idempotency_keys[rid], request'[c]))
    => /\ result'[c].err \in {ErrIdempotencyConflict, ErrStorage}
       /\ FindExisting(c) => result'[c].err = ErrIdempotencyConflict
       /\ result'[c].entryID = 0 /\ ~result'[c].wasReplayed
       /\ ledger_entries' = ledger_entries
       /\ ledger_idempotency_keys' = ledger_idempotency_keys
       /\ txKey[c] = NoRow /\ txEntry[c] = NoRow

C3_ConflictDetection == [][\A c \in Calls : C3_ConflictStep(c)]_vars

\* A call was answered Conflict on a request id whose record is complete.
C3_Witness ==
    \E c \in Calls :
        /\ Done(c)
        /\ result[c].err = ErrIdempotencyConflict
        /\ request[c].RequestID \in DOMAIN ledger_idempotency_keys
        /\ ledger_idempotency_keys[request[c].RequestID].entry_id # NULL
        /\ OtherIdentity(ledger_idempotency_keys[request[c].RequestID], request[c])

(***************************************************************************)
(* C4. Idempotent retry safety: once a call has been answered entry id e,  *)
(* every call with the same request id, operation and actor that returns   *)
(* afterwards returns (e, true) unless the store failed it, and its return *)
(* leaves the ledger entries and the idempotency records as they were.     *)
(***************************************************************************)
C4_RetryStep(c) ==
    \A d \in Calls \ {c} :
        (/\ Returns(c)
         /\ Succeeded(d)
         /\ request[d] = request'[c])
        => /\ result'[c].err # ErrStorage
              => result'[c] = Returned(result[d].entryID, TRUE, NoError)
           /\ ledger_entries' = ledger_entries
           /\ ledger_idempotency_keys' = ledger_idempotency_keys

C4_RetrySafety == [][\A c \in Calls : C4_RetryStep(c)]_vars

\* The first call created the entry, the second call was answered with it.
C4_Witness ==
    \E c, d \in Calls :
        /\ d < c
        /\ request[c] = request[d]
        /\ Created(d)
        /\ Replayed(c)
        /\ result[c].entryID = result[d].entryID
        /\ DOMAIN ledger_entries = {result[d].entryID}
        /\ DOMAIN ledger_idempotency_keys = {request[d].RequestID}

(***************************************************************************)
(* C5. Failure atomicity: every visible ledger entry and every visible     *)
(* idempotency record was written by a call that returned (id, false); a   *)
(* call that failed before its commit (at the reservation, the entry       *)
(* insert, the backfill, the commit, or by cancellation) has left no row,  *)
(* and a call that has returned holds no uncommitted row.                  *)
(***************************************************************************)
C5_FailureAtomicity ==
    /\ \A e \in DOMAIN ledger_entries :
          \E c \in Calls : Created(c) /\ result[c].entryID = e
    /\ \A rid \in DOMAIN ledger_idempotency_keys :
          \E c \in Calls :
              /\ Created(c)
              /\ request[c].RequestID = rid
              /\ ledger_idempotency_keys[rid].entry_id = result[c].entryID
    /\ \A c \in Calls : Done(c) => txKey[c] = NoRow /\ txEntry[c] = NoRow

\* Both calls have failed, one of them after its entry insert had been given
\* id 1: neither table shows a row.
C5_Witness ==
    /\ \A c \in Calls : Failed(c)
    /\ auto_increment = 2
    /\ ledger_entries = EmptyTable
    /\ ledger_idempotency_keys = EmptyTable

(***************************************************************************)
(* C6. A failed attempt never blocks its request id: when every other call *)
(* made with a request id has failed, a call about to reserve that id      *)
(* finds it neither taken nor held, so that its reservation insert         *)
(* succeeds; and a call answered after only failed attempts is never       *)
(* answered RequestInProgress or a replay.                                 *)
(***************************************************************************)
C6_FailedAttemptFreesKey ==
    \A c \in Calls :
        (/\ Started(c)
         /\ \A d \in CallsWith(request[c].RequestID) \ {c} : Failed(d))
        => /\ pc[c] = "reserve"
              => /\ ~DuplicateKey(request[c].RequestID)
                 /\ ~KeyHeldByOther(c, request[c].RequestID)
                 /\ ENABLED ReserveKey(c)
           /\ Done(c) => Created(c) \/ Failed(c)

\* An attempt failed after its entry insert (id 1 was used up and is not
\* visible); the later call with the same request id created entry 2.
C6_Witness ==
    \E c, d \in Calls :
        /\ d < c
        /\ Failed(d)
        /\ Done(c)
        /\ request[d].RequestID = request[c].RequestID
        /\ result[c] = Returned(2, FALSE, NoError)
        /\ DOMAIN ledger_entries = {2}

(***************************************************************************)
(* C7. When the record found for the request id has the call's operation   *)
(* and actor and its entry_id is unset, the call returns RequestInProgress *)
(* (unless the store failed it), no ledger entry is created and the record *)
(* is left as it was.                                                      *)
(***************************************************************************)
C7_LockedStep(c) ==
    LET rid == request'[c].RequestID IN
    (/\ Returns(c)
     /\ rid \in DOMAIN ledger_idempotency_keys
     /\ ~OtherIdentity(ledger_idempotency_keys[rid], request'[c])
     /\ ledger_idempotency_keys[rid].entry_id = NULL)
    => /\ result'[c].err \in {ErrIdempotencyRequestLocked, ErrStorage}
       /\ FindExisting(c) => result'[c].err = ErrIdempotencyRequestLocked
       /\ result'[c].entryID = 0 /\ ~result'[c].wasReplayed
       /\ ledger_entries' = ledger_entries
       /\ ledger_idempotency_keys' = ledger_idempotency_keys

C7_RequestInProgress == [][\A c \in Calls : C7_LockedStep(c)]_vars

\* A call was answered RequestInProgress; the record is still unfinalised
\* and no entry exists.
C7_Witness ==
    \E c \in Calls :
        /\ Done(c)
        /\ result[c].err = ErrIdempotencyRequestLocked
        /\ ledger_idempotency_keys[request[c].RequestID].entry_id = NULL
        /\ ledger_entries = EmptyTable

(***************************************************************************)
(* C8. A key never looks successful before its write is committed: every   *)
(* visible record with entry_id set points at a visible ledger entry, so   *)
(* does every id a call has read from a record or been answered as a       *)
(* replay; while a call holds an uncommitted record, every other call with *)
(* that request id waits at its reservation insert (or has failed).        *)
(***************************************************************************)
C8_NoEarlySuccess ==
    /\ \A rid \in DOMAIN ledger_idempotency_keys :
          ledger_idempotency_keys[rid].entry_id # NULL
              => ledger_idempotency_keys[rid].entry_id \in DOMAIN ledger_entries
    /\ \A c \in Calls :
          /\ pc[c] = "commitReplay" => existingID[c] \in DOMAIN ledger_entries
          /\ Replayed(c) => result[c].entryID \in DOMAIN ledger_entries
    /\ \A c \in Calls :
          txKey[c] # NoRow =>
              /\ request[c].RequestID \notin DOMAIN ledger_idempotency_keys
              /\ \A d \in CallsWith(request[c].RequestID) \ {c} :
                    pc[d] = "reserve" \/ Failed(d)

\* A call is about to commit its backfilled record while another call with
\* the same request waits at its reservation insert.
C8_Witness ==
    \E c, d \in Calls :
        /\ c # d
        /\ pc[c] = "commit"
        /\ txKey[c].entry_id = insertedID[c]
        /\ pc[d] = "reserve"
        /\ request[d] = request[c]
        /\ ledger_idempotency_keys = EmptyTable

(***************************************************************************)
(* C9. Replay ignores payload: a call whose amount, occurrence time or     *)
(* description differs from those of the entry recorded for its request    *)
(* id, operation and actor returns that entry's id with wasReplayed = true *)
(* (unless the store failed it); no entry is created and the recorded      *)
(* entry keeps its amount, occurred_at and description.                    *)
(***************************************************************************)
C9_ReplayStep(c) ==
    LET rid == request[c].RequestID IN
    (/\ Returns(c)
     /\ pc[c] \in {"reserve", "find", "commitReplay"}
     /\ rid \in DOMAIN ledger_idempotency_keys
     /\ ~OtherIdentity(ledger_idempotency_keys[rid], request[c])
     /\ ledger_idempotency_keys[rid].entry_id \in DOMAIN ledger_entries
     /\ LET e == ledger_entries[ledger_idempotency_keys[rid].entry_id]
        IN  \/ e.amount # input[c].Amount
            \/ e.occurred_at # input[c].OccurredAt
            \/ e.description # input[c].Description)
    => /\ result'[c].err # ErrStorage
          => result'[c] = Returned(ledger_idempotency_keys[rid].entry_id, TRUE, NoError)
       /\ ledger_entries' = ledger_entries
       /\ ledger_idempotency_keys' = ledger_idempotency_keys

C9_ReplayIgnoresPayload == [][\A c \in Calls : C9_ReplayStep(c)]_vars

\* A call is replaying an entry whose amount, time and description differ
\* from the ones it carries.
C9_Witness ==
    \E c \in Calls :
        /\ pc[c] = "commitReplay"
        /\ existingID[c] \in DOMAIN ledger_entries
        /\ ledger_entries[existingID[c]].amount # input[c].Amount
        /\ ledger_entries[existingID[c]].occurred_at # input[c].OccurredAt
        /\ ledger_entries[existingID[c]].description # input[c].Description
        /\ ledger_entries[existingID[c]].entry_type = input[c].EntryType
        /\ ledger_entries[existingID[c]].user_id = input[c].UserID

(***************************************************************************)
(* C10. Side effects per outcome: the return of a call answered            *)
(* (id, false) adds exactly the ledger entry id and exactly the record of  *)
(* its request id, pointing at id; every other return, and every step that *)
(* is not a return, leaves both tables as they were; a call that lost the  *)
(* reservation insert ends in a replay, Conflict or RequestInProgress      *)
(* (unless the store failed it), never in an insert.                       *)
(***************************************************************************)
C10_ReturnStep(c) ==
    Returns(c) =>
        IF result'[c].err = NoError /\ ~result'[c].wasReplayed
        THEN LET id == result'[c].entryID
                 rid == request[c].RequestID
             IN  /\ id \notin DOMAIN ledger_entries
                 /\ DOMAIN ledger_entries' = DOMAIN ledger_entries \cup {id}
                 /\ \A e \in DOMAIN ledger_entries : ledger_entries'[e] = ledger_entries[e]
                 /\ ledger_entries'[id] = EntryRow(input[c])
                 /\ rid \notin DOMAIN ledger_idempotency_keys
                 /\ DOMAIN ledger_idempotency_keys' = DOMAIN ledger_idempotency_keys \cup {rid}
                 /\ \A r \in DOMAIN ledger_idempotency_keys :
                       ledger_idempotency_keys'[r] = ledger_idempotency_keys[r]
                 /\ ledger_idempotency_keys'[rid] =
                       [ operation |-> request[c].Operation,
                         created_by |-> request[c].ActorUserID,
                         entry_id |-> id ]
        ELSE /\ ledger_entries' = ledger_entries
             /\ ledger_idempotency_keys' = ledger_idempotency_keys
             /\ pc[c] \in {"find", "commitReplay"} /\ result'[c].err # ErrStorage
                   => \/ result'[c].err = NoError /\ result'[c].wasReplayed
                      \/ result'[c].err = ErrIdempotencyConflict
                      \/ result'[c].err = ErrIdempotencyRequestLocked

C10_SideEffects ==
    [][ /\ \A c \in Calls : C10_ReturnStep(c)
        /\ \A c \in Calls : pc[c] \in {"find", "commitReplay"} => ~Created(c)'
        /\ (\A c \in Calls : ~Returns(c)) => store' = store ]_vars

\* In one run a call created an entry, and calls were answered Conflict and
\* RequestInProgress on the reserved request id.
C10_Witness ==
    /\ \E c \in Calls : Created(c) /\ Cardinality(DOMAIN ledger_entries) = 1
                        /\ Cardinality(DOMAIN ledger_idempotency_keys) = 2
    /\ \E c \in Calls : /\ Done(c)
                        /\ result[c].err \in {ErrIdempotencyConflict,
                                              ErrIdempotencyRequestLocked}

(***************************************************************************)
(* Soft deletion: SQLLedgerRepository.SoftDeleteEntry.                     *)
(*                                                                         *)
(* checkDeletedSQL and softDeleteSQL are issued on r.db, outside any       *)
(* transaction: each is one auto-committed statement, and the statements   *)
(* of other calls run between the two.  A call of SoftDeleteEntry uses pc, *)
(* request and result like a call of CreateEntryWithRequestID; its other   *)
(* locals stay at their idle values.                                       *)
(***************************************************************************)

\* The entry ids callers ask to delete, and the values NOW() may take.
EntryIDs == {1, 2, 3}
Times == {1, 2}

ErrLedgerEntryNotFound == "NotFound"
ErrEntryAlreadyDeleted == "AlreadyDeleted"

\* The arguments of SoftDeleteEntry.
DeleteRequest(entryID, deletedBy) == [EntryID |-> entryID, DeletedBy |-> deletedBy]

\* The error SoftDeleteEntry returns.
DeleteReturned(err) == [err |-> err]

\* Variant: a missing row is reported like a deleted one.
checkDeletedMissingAsDeleted(entries, entryID) ==
    IF entryID \notin DOMAIN entries THEN ErrEntryAlreadyDeleted
    ELSE IF entries[entryID].deleted_at # NULL THEN ErrEntryAlreadyDeleted
    ELSE NoError

\* checkDeletedSQL and the tests on what it scanned: sql.ErrNoRows, then
\* deletedAt.Valid.
checkDeletedSQL(entries, entryID) ==
    IF entryID \notin DOMAIN entries THEN ErrLedgerEntryNotFound
    ELSE IF entries[entryID].deleted_at # NULL THEN ErrEntryAlreadyDeleted
    ELSE NoError

\* Variant: the UPDATE lacks "AND deleted_at IS NULL".
softDeleteUnconditional(entries, entryID, deletedBy, now) ==
    [ id \in DOMAIN entries |->
        IF id = entryID
        THEN [entries[id] EXCEPT !.deleted_at = now, !.deleted_by = deletedBy]
        ELSE entries[id] ]

\* softDeleteSQL: the rows of ledger_entries after the UPDATE, NOW() being now.
softDeleteSQL(entries, entryID, deletedBy, now) ==
    [ id \in DOMAIN entries |->
        IF id = entryID /\ entries[id].deleted_at = NULL
        THEN [entries[id] EXCEPT !.deleted_at = now, !.deleted_by = deletedBy]
        ELSE entries[id] ]

\* Variant: soft deletion also releases the request id, the records that
\* point at the entry are deleted with it.
softDeleteReleasesKeys(keys, entryID) ==
    [ rid \in { r \in DOMAIN keys : keys[r].entry_id # entryID } |-> keys[rid] ]

\* softDeleteSQL: the rows of ledger_idempotency_keys after the UPDATE.  The
\* statement names ledger_entries only, and fk_ledger_idempotency_entry_id
\* declares no action on the referencing rows.
softDeleteKeys(keys, entryID) == keys

\* res.RowsAffected: the number of rows the UPDATE changed.
RowsAffected(before, after) ==
    Cardinality({ id \in DOMAIN before : after[id] # before[id] })

\* Variant: the number of affected rows is not looked at.
softDeleteIgnoresAffected(affected) == NoError

\* The test of affected at the end of SoftDeleteEntry.
softDeleteOutcome(affected) ==
    IF affected = 0 THEN ErrEntryAlreadyDeleted ELSE NoError

\* handleDeleteEntry: the status and the message written for what
\* SoftDeleteEntry returned.
handleDeleteEntry(err) ==
    CASE err = NoError -> [status |-> 204, error |-> << >>]
      [] err = ErrLedgerEntryNotFound ->
            [status |-> 404, error |-> << "entry", "not", "found" >>]
      [] err = ErrEntryAlreadyDeleted ->
            [status |-> 409, error |-> << "entry", "already", "deleted" >>]
      [] OTHER -> [status |-> 500, error |-> << "failed", "to", "delete", "entry" >>]

\* SoftDeleteEntry is entered.  Calls are numbered in the order in which
\* they arrive.
SoftDeleteEntry(c) ==
    /\ pc[c] = "idle"
    /\ \A d \in Calls : d < c => pc[d] # "idle"
    /\ \E entryID \in EntryIDs, deletedBy \in Users :
          request' = [request EXCEPT ![c] = DeleteRequest(entryID, deletedBy)]
    /\ pc' = [pc EXCEPT ![c] = "checkDeleted"]
    /\ UNCHANGED << ledger_entries, ledger_idempotency_keys, auto_increment, auth, input,
                    txKey, txEntry, insertedID, existingID, result >>

\* checkDeletedSQL is answered: the call returns NotFound or AlreadyDeleted,
\* or goes on to the UPDATE.
CheckDeleted(c) ==
    /\ pc[c] = "checkDeleted"
    /\ LET err == checkDeletedSQL(ledger_entries, request[c].EntryID)
       IN  IF err # NoError
           THEN Return(c, DeleteReturned(err))
           ELSE /\ pc' = [pc EXCEPT ![c] = "softDelete"]
                /\ UNCHANGED << input, txKey, txEntry, insertedID, existingID, result >>
    /\ UNCHANGED << ledger_entries, ledger_idempotency_keys, auto_increment, auth, request >>

\* checkDeletedSQL fails (the store, or the caller's context).
CheckDeletedError(c) ==
    /\ pc[c] = "checkDeleted"
    /\ Return(c, DeleteReturned(ErrStorage))
    /\ UNCHANGED << ledger_entries, ledger_idempotency_keys, auto_increment, auth, request >>

\* softDeleteSQL is executed and the affected rows are counted.
SoftDelete(c) ==
    /\ pc[c] = "softDelete"
    /\ \E now \in Times :
          LET after == softDeleteSQL(ledger_entries, request[c].EntryID,
                                     request[c].DeletedBy, now)
          IN  /\ ledger_entries' = after
              /\ Return(c, DeleteReturned(
                              softDeleteOutcome(RowsAffected(ledger_entries, after))))
    /\ ledger_idempotency_keys' =
          softDeleteKeys(ledger_idempotency_keys, request[c].EntryID)
    /\ UNCHANGED << auto_increment, auth, request >>

\* softDeleteSQL fails: no row is changed.
SoftDeleteError(c) ==
    /\ pc[c] = "softDelete"
    /\ Return(c, DeleteReturned(ErrStorage))
    /\ UNCHANGED << ledger_entries, ledger_idempotency_keys, auto_increment, auth, request >>

\* softDeleteSQL is executed but res.RowsAffected fails.
RowsAffectedError(c) ==
    /\ pc[c] = "softDelete"
    /\ \E now \in Times :
          ledger_entries' = softDeleteSQL(ledger_entries, request[c].EntryID,
                                          request[c].DeletedBy, now)
    /\ ledger_idempotency_keys' =
          softDeleteKeys(ledger_idempotency_keys, request[c].EntryID)
    /\ Return(c, DeleteReturned(ErrStorage))
    /\ UNCHANGED << auto_increment, auth, request >>

\* A live entry, as a committed donation of user 1 left it.
LiveEntry == EntryRow(DonationEntryInput(1, [amount |-> "100.00", at |-> 1, who |-> "Alice"]))

\* The same entry after user 2 soft-deleted it at time 1.
DeletedEntry == [LiveEntry EXCEPT !.deleted_at = 1, !.deleted_by = 2]

\* Entry 1 is live, entry 2 was soft-deleted earlier, no row has id 3.
InitialEntries == (1 :> LiveEntry) @@ (2 :> DeletedEntry)

LiveAtStart == { id \in DOMAIN InitialEntries : InitialEntries[id].deleted_at = NULL }

InitDelete ==
    /\ ledger_entries = InitialEntries
    /\ ledger_idempotency_keys = ("r1" :> [KeyRow(LedgerEntryTypeDonation, 1) EXCEPT !.entry_id = 1])
    /\ auto_increment = 3
    /\ InitCalls

NextDelete ==
    \E c \in Calls :
        \/ SoftDeleteEntry(c)
        \/ CheckDeleted(c)
        \/ CheckDeletedError(c)
        \/ SoftDelete(c)
        \/ SoftDeleteError(c)
        \/ RowsAffectedError(c)

\* Concurrent calls of SoftDeleteEntry on that store.
SpecDelete == InitDelete /\ [][NextDelete]_vars

\* The call is a call of SoftDeleteEntry.
IsDelete(c) == Started(c) /\ "EntryID" \in DOMAIN request[c]

\* The calls of SoftDeleteEntry made for entry id.
DeletesOf(id) == { c \in Calls : IsDelete(c) /\ request[c].EntryID = id }

(***************************************************************************)
(* C11. Soft-delete exactly-once: of the concurrent SoftDeleteEntry calls  *)
(* made on one live entry, in every interleaving at most one returns       *)
(* success (204), and once all of them have returned without a storage     *)
(* failure exactly one has and every other one returned AlreadyDeleted     *)
(* (409); deleted_by is the winner's user; a row whose deleted_at is set   *)
(* is never written again.                                                 *)
(***************************************************************************)
C11_Outcome ==
    \A id \in LiveAtStart :
        LET won == { c \in DeletesOf(id) : Succeeded(c) }
        IN  /\ Cardinality(won) <= 1
            /\ \A c \in won :
                  /\ ledger_entries[id].deleted_at # NULL
                  /\ ledger_entries[id].deleted_by = request[c].DeletedBy
                  /\ handleDeleteEntry(result[c].err).status = 204
            /\ (/\ DeletesOf(id) # {}
                /\ \A c \in DeletesOf(id) : Done(c) /\ ~Failed(c))
                  => /\ Cardinality(won) = 1
                     /\ \A c \in DeletesOf(id) \ won :
                           /\ result[c].err = ErrEntryAlreadyDeleted
                           /\ handleDeleteEntry(result[c].err).status = 409

C11_WrittenOnce ==
    \A id \in DOMAIN ledger_entries :
        ledger_entries[id].deleted_at # NULL
            => /\ id \in DOMAIN ledger_entries'
               /\ ledger_entries'[id] = ledger_entries[id]

C11_SoftDeleteExactlyOnce == []C11_Outcome /\ [][C11_WrittenOnce]_vars

\* Two users asked to delete entry 1; the call that arrived second won and
\* the first one was answered AlreadyDeleted.
C11_Witness ==
    \E c, d \in Calls :
        /\ d < c
        /\ Done(c) /\ Done(d)
        /\ IsDelete(c) /\ IsDelete(d)
        /\ request[c].EntryID = 1 /\ request[d].EntryID = 1
        /\ request[c].DeletedBy # request[d].DeletedBy
        /\ result[c].err = NoError
        /\ result[d].err = ErrEntryAlreadyDeleted
        /\ ledger_entries[1].deleted_by = request[c].DeletedBy

(***************************************************************************)
(* C12. A SoftDeleteEntry call that returns while no row has its id        *)
(* returns NotFound (404), and one that returns while the row's deleted_at *)
(* is already set returns AlreadyDeleted (409), unless a statement failed; *)
(* in both cases the step leaves every row of both tables as it was, so    *)
(* the deleted_at and deleted_by in place are not overwritten.             *)
(***************************************************************************)
C12_ReturnStep(c) ==
    Returns(c) /\ IsDelete(c) =>
        LET id == request[c].EntryID
            err == result'[c].err
        IN  /\ id \notin DOMAIN ledger_entries
                => /\ store' = store
                   /\ err # ErrStorage
                        => /\ err = ErrLedgerEntryNotFound
                           /\ handleDeleteEntry(err).status = 404
            /\ id \in DOMAIN ledger_entries /\ ledger_entries[id].deleted_at # NULL
                => /\ store' = store
                   /\ err # ErrStorage
                        => /\ err = ErrEntryAlreadyDeleted
                           /\ handleDeleteEntry(err).status = 409

C12_NotFoundAlreadyDeleted == [][\A c \in Calls : C12_ReturnStep(c)]_vars

\* One call was answered NotFound for id 3, another AlreadyDeleted for the
\* entry user 2 had deleted, by a different user; the row is as it was.
C12_Witness ==
    \E c, d \in Calls :
        /\ Done(c) /\ Done(d)
        /\ IsDelete(c) /\ IsDelete(d)
        /\ request[c].EntryID = 3 /\ result[c].err = ErrLedgerEntryNotFound
        /\ request[d].EntryID = 2 /\ result[d].err = ErrEntryAlreadyDeleted
        /\ request[d].DeletedBy # ledger_entries[2].deleted_by
        /\ ledger_entries = InitialEntries

(***************************************************************************)
(* The read operations of SQLLedgerRepository and the admin correction.    *)
(* Each SELECT is one auto-committed statement that leaves the tables as   *)
(* they are; LedgerQueryService.ListEntries issues two of them.            *)
(***************************************************************************)

\* ListLedgerEntriesFilter.Type: empty, or one of the two entry types.
TypeFilters == {"", LedgerEntryTypeDonation, LedgerEntryTypeExpense}

\* buildLedgerFilterClause: the ids of the rows the WHERE clause selects.
buildLedgerFilterClause(entries, type) ==
    { id \in DOMAIN entries :
        /\ entries[id].deleted_at = NULL
        /\ type # "" => entries[id].entry_type = type }

\* summarySQL: the ids of the rows the three sums range over; the month of
\* an entry is that of its occurred_at.
summarySQL(entries, month) ==
    { id \in DOMAIN entries :
        entries[id].occurred_at = month /\ entries[id].deleted_at = NULL }

\* The arguments of the read operations.
ListRequest(type) == [Type |-> type]
SummaryRequest(month) == [Month |-> month]

\* ListEntriesResult: the items and the total.
ListReturned(items, total, err) == [items |-> items, total |-> total, err |-> err]

\* MonthlySummary: the rows summed.
SummaryReturned(rows, err) == [rows |-> rows, err |-> err]

\* LedgerQueryService.ListEntries is entered.
ListEntries(c) ==
    /\ pc[c] = "idle"
    /\ \A d \in Calls : d < c => pc[d] # "idle"
    /\ \E type \in TypeFilters :
          request' = [request EXCEPT ![c] = ListRequest(type)]
    /\ pc' = [pc EXCEPT ![c] = "listEntries"]
    /\ UNCHANGED << ledger_entries, ledger_idempotency_keys, auto_increment, auth, input,
                    txKey, txEntry, insertedID, existingID, result >>

\* repo.ListEntries: the page of items is read.
ListEntriesRows(c) ==
    /\ pc[c] = "listEntries"
    /\ result' = [result EXCEPT ![c] =
          ListReturned(buildLedgerFilterClause(ledger_entries, request[c].Type), 0, NoError)]
    /\ pc' = [pc EXCEPT ![c] = "countEntries"]
    /\ UNCHANGED << ledger_entries, ledger_idempotency_keys, auto_increment, auth, input,
                    request, txKey, txEntry, insertedID, existingID >>

\* repo.CountEntries: the total is read and the result returned.
CountEntries(c) ==
    /\ pc[c] = "countEntries"
    /\ Return(c, ListReturned(result[c].items,
                   Cardinality(buildLedgerFilterClause(ledger_entries, request[c].Type)),
                   NoError))
    /\ UNCHANGED << ledger_entries, ledger_idempotency_keys, auto_increment, auth, request >>

\* LedgerQueryService.GetMonthlySummary: one statement.
GetMonthlySummary(c) ==
    /\ pc[c] = "idle"
    /\ \A d \in Calls : d < c => pc[d] # "idle"
    /\ \E month \in { p.at : p \in Payloads } :
          /\ request' = [request EXCEPT ![c] = SummaryRequest(month)]
          /\ Return(c, SummaryReturned(summarySQL(ledger_entries, month), NoError))
    /\ UNCHANGED << ledger_entries, ledger_idempotency_keys, auto_increment, auth >>

\* A read statement fails.
ReadError(c) ==
    /\ pc[c] \in {"listEntries", "countEntries"}
    /\ Return(c, ListReturned({}, 0, ErrStorage))
    /\ UNCHANGED << ledger_entries, ledger_idempotency_keys, auto_increment, auth, request >>

(***************************************************************************)
(* LedgerService.UpdateLedgerEntry: GetEntryByID, then repo.UpdateEntry,   *)
(* which overwrites amount, occurred_at and description of the entry in    *)
(* one statement.                                                          *)
(***************************************************************************)

\* The arguments of UpdateLedgerEntry.
UpdateRequest(entryID, p) == [UpdateID |-> entryID, Payload |-> p]

\* repository.UpdateLedgerEntryInput as UpdateLedgerEntry builds it for an
\* entry of the given type.
UpdateLedgerEntryInput(entryID, entryType, p) ==
    [ EntryID |-> entryID, Amount |-> p.amount, OccurredAt |-> p.at,
      Description |-> IF entryType = LedgerEntryTypeDonation
                      THEN DonationEntryInput(0, p).Description
                      ELSE ExpenseEntryInput(0, p).Description ]

\* Variant: the correction also revives the entry.
UpdateEntryRevives(entries, in) ==
    [ id \in DOMAIN entries |->
        IF id = in.EntryID
        THEN [entries[id] EXCEPT !.amount = in.Amount, !.occurred_at = in.OccurredAt,
                                 !.description = in.Description,
                                 !.deleted_at = NULL, !.deleted_by = NULL]
        ELSE entries[id] ]

\* repo.UpdateEntry: the rows of ledger_entries after the UPDATE.
UpdateEntry(entries, in) ==
    [ id \in DOMAIN entries |->
        IF id = in.EntryID
        THEN [entries[id] EXCEPT !.amount = in.Amount, !.occurred_at = in.OccurredAt,
                                 !.description = in.Description]
        ELSE entries[id] ]

\* UpdateLedgerEntry is entered with a valid input.
UpdateLedgerEntry(c) ==
    /\ pc[c] = "idle"
    /\ \A d \in Calls : d < c => pc[d] # "idle"
    /\ \E entryID \in EntryIDs, p \in Payloads :
          request' = [request EXCEPT ![c] = UpdateRequest(entryID, p)]
    /\ pc' = [pc EXCEPT ![c] = "getEntry"]
    /\ UNCHANGED << ledger_entries, ledger_idempotency_keys, auto_increment, auth, input,
                    txKey, txEntry, insertedID, existingID, result >>

\* repo.GetEntryByID: NotFound, or the entry whose type decides the fields.
GetEntryByID(c) ==
    /\ pc[c] = "getEntry"
    /\ IF request[c].UpdateID \notin DOMAIN ledger_entries
       THEN Return(c, DeleteReturned(ErrLedgerEntryNotFound))
       ELSE /\ input' = [input EXCEPT ![c] =
                   UpdateLedgerEntryInput(request[c].UpdateID,
                       ledger_entries[request[c].UpdateID].entry_type,
                       request[c].Payload)]
            /\ pc' = [pc EXCEPT ![c] = "updateEntry"]
            /\ UNCHANGED << txKey, txEntry, insertedID, existingID, result >>
    /\ UNCHANGED << ledger_entries, ledger_idempotency_keys, auto_increment, auth, request >>

\* repo.UpdateEntry succeeds.
UpdateEntryRow(c) ==
    /\ pc[c] = "updateEntry"
    /\ ledger_entries' = UpdateEntry(ledger_entries, input[c])
    /\ Return(c, DeleteReturned(NoError))
    /\ UNCHANGED << ledger_idempotency_keys, auto_increment, auth, request >>

\* GetEntryByID or repo.UpdateEntry fails.
UpdateError(c) ==
    /\ pc[c] \in {"getEntry", "updateEntry"}
    /\ Return(c, DeleteReturned(ErrStorage))
    /\ UNCHANGED << ledger_entries, ledger_idempotency_keys, auto_increment, auth, request >>

\* The call is a call of CreateDonation or CreateExpense.
IsCreate(c) == Started(c) /\ "RequestID" \in DOMAIN request[c]

\* The call is a call of UpdateLedgerEntry.
IsUpdate(c) == Started(c) /\ "UpdateID" \in DOMAIN request[c]

(***************************************************************************)
(* All operations of the ledger, running concurrently on a store that      *)
(* holds a live entry, a deleted entry and the idempotency record of the   *)
(* live one.  Creates racing each other are the subject of Spec: here one  *)
(* create runs among the other operations.                                 *)
(***************************************************************************)
NextLedger ==
    \E c \in Calls :
        \/ (\A d \in Calls : ~IsCreate(d)) /\ CreateDonation(c)
        \/ (\A d \in Calls : ~IsCreate(d)) /\ CreateExpense(c)
        \/ ReserveKey(c)
        \/ ReserveDuplicate(c)
        \/ ReserveError(c)
        \/ FindExisting(c)
        \/ FindError(c)
        \/ CommitReplay(c)
        \/ ReplayCommitError(c)
        \/ InsertEntry(c)
        \/ InsertEntryError(c)
        \/ LastInsertIdError(c)
        \/ Backfill(c)
        \/ BackfillError(c)
        \/ Commit(c)
        \/ CommitError(c)
        \/ ContextCancelled(c)
        \/ SoftDeleteEntry(c)
        \/ CheckDeleted(c)
        \/ CheckDeletedError(c)
        \/ SoftDelete(c)
        \/ SoftDeleteError(c)
        \/ RowsAffectedError(c)
        \/ ListEntries(c)
        \/ ListEntriesRows(c)
        \/ CountEntries(c)
        \/ GetMonthlySummary(c)
        \/ ReadError(c)
        \/ UpdateLedgerEntry(c)
        \/ GetEntryByID(c)
        \/ UpdateEntryRow(c)
        \/ UpdateError(c)

SpecLedger == InitDelete /\ [][NextLedger]_vars

(***************************************************************************)
(* C13. Soft deletion is monotonic: no step of any operation (create,      *)
(* replay, update, delete, list, summary) removes an entry, clears a set   *)
(* deleted_at or changes it or deleted_by to another value; deleted_at     *)
(* only ever goes from unset to set.                                       *)
(***************************************************************************)
C13_Step ==
    \A id \in DOMAIN ledger_entries :
        /\ id \in DOMAIN ledger_entries'
        /\ ledger_entries[id].deleted_at # NULL
              => /\ ledger_entries'[id].deleted_at = ledger_entries[id].deleted_at
                 /\ ledger_entries'[id].deleted_by = ledger_entries[id].deleted_by

C13_DeletionMonotonic == [][C13_Step]_vars

\* Entry 1 was soft-deleted by a call of this run, and a correction was
\* applied to the deleted entry 2, whose marker is still the one it had.
C13_Witness ==
    /\ \E c \in Calls : IsDelete(c) /\ Succeeded(c) /\ request[c].EntryID = 1
    /\ ledger_entries[1].deleted_at # NULL
    /\ \E c \in Calls : IsUpdate(c) /\ Succeeded(c) /\ request[c].UpdateID = 2
    /\ ledger_entries[2].amount # InitialEntries[2].amount
    /\ ledger_entries[2].deleted_at = InitialEntries[2].deleted_at

(***************************************************************************)
(* C14. Each idempotency record is associated with at most one ledger      *)
(* entry for the whole execution: its entry_id is set once, by the         *)
(* backfill of the transaction that reserved it; the record becomes        *)
(* visible exactly as that transaction last wrote it; and no step of any   *)
(* call changes the entry_id, operation or created_by of a committed       *)
(* record or removes it.                                                   *)
(***************************************************************************)
C14_Step ==
    /\ \A rid \in DOMAIN ledger_idempotency_keys :
          /\ rid \in DOMAIN ledger_idempotency_keys'
          /\ ledger_idempotency_keys'[rid] = ledger_idempotency_keys[rid]
    /\ \A rid \in DOMAIN ledger_idempotency_keys' \ DOMAIN ledger_idempotency_keys :
          \E c \in Calls : /\ txKey[c] # NoRow
                           /\ request[c].RequestID = rid
                           /\ ledger_idempotency_keys'[rid] = txKey[c]
    /\ \A c \in Calls :
          txKey[c] # NoRow /\ txKey'[c] # NoRow
              => /\ txKey'[c].operation = txKey[c].operation
                 /\ txKey'[c].created_by = txKey[c].created_by
                 /\ txKey[c].entry_id # NULL => txKey'[c] = txKey[c]

C14_RecordBoundOnce == [][C14_Step]_vars

\* The record of "r2" points at the entry its first call created, after a
\* second call with "r2" was answered from it; the reserved record of "r1"
\* is still unset.
C14_Witness ==
    /\ "r2" \in DOMAIN ledger_idempotency_keys
    /\ ledger_idempotency_keys["r1"].entry_id = NULL
    /\ \E c, d \in Calls :
          /\ Done(c) /\ Done(d)
          /\ request[c].RequestID = "r2" /\ request[d].RequestID = "r2"
          /\ Created(c) /\ Replayed(d)
          /\ ledger_idempotency_keys["r2"].entry_id = result[c].entryID

(***************************************************************************)
(* C15. Only the idempotent create path touches idempotency records: no    *)
(* step of a call of SoftDeleteEntry, UpdateLedgerEntry, ListEntries,      *)
(* CountEntries or GetMonthlySummary changes a record, and a step that     *)
(* does change one is the commit of a create call.                         *)
(***************************************************************************)
C15_Step ==
    /\ \A c \in Calls :
          pc'[c] # pc[c] /\ ~IsCreate(c)'
              => ledger_idempotency_keys' = ledger_idempotency_keys
    /\ ledger_idempotency_keys' # ledger_idempotency_keys
          => \E c \in Calls : IsCreate(c) /\ pc[c] = "commit" /\ Returns(c)

C15_OnlyCreateTouchesKeys == [][C15_Step]_vars

\* A delete and a correction of entry 1 have both been carried out, and the
\* record of "r1", which points at entry 1, is as it was.
C15_Witness ==
    /\ \E c \in Calls : IsDelete(c) /\ Succeeded(c) /\ request[c].EntryID = 1
    /\ \E c \in Calls : IsUpdate(c) /\ Succeeded(c) /\ request[c].UpdateID = 1
    /\ ledger_entries[1].deleted_at # NULL
    /\ ledger_entries[1].amount # InitialEntries[1].amount
    /\ DOMAIN ledger_idempotency_keys = {"r1"}
    /\ ledger_idempotency_keys["r1"].entry_id = 1

(***************************************************************************)
(* Texts.  A text is the sequence of its words and signs; the white space  *)
(* between two of them is left out, white space at either end of the text  *)
(* is " ".  An amount is spelled letter by letter.                         *)
(***************************************************************************)

\* strings.TrimSpace
RECURSIVE TrimLeft(_)
TrimLeft(s) == IF s # << >> /\ Head(s) = " " THEN TrimLeft(Tail(s)) ELSE s

RECURSIVE TrimRight(_)
TrimRight(s) ==
    IF s # << >> /\ s[Len(s)] = " " THEN TrimRight(SubSeq(s, 1, Len(s) - 1)) ELSE s

TrimSpace(s) == TrimRight(TrimLeft(s))

\* strings.ToLower, on the capitalised words of the texts below.
ToLower(s) ==
    [ i \in 1..Len(s) |->
        CASE s[i] = "Error" -> "error"
          [] s[i] = "Invalid" -> "invalid"
          [] s[i] = "Incorrect" -> "incorrect"
          [] s[i] = "Lock" -> "lock"
          [] s[i] = "Column" -> "column"
          [] s[i] = "NaN" -> "nan"
          [] s[i] = "Inf" -> "inf"
          [] s[i] = "Donation" -> "donation"
          [] OTHER -> s[i] ]

\* strings.Contains(text, word)
Contains(s, word) == \E i \in 1..Len(s) : s[i] = word

\* strings.Split(amount, ".")
RECURSIVE Split(_, _)
Split(s, sep) ==
    IF \E i \in 1..Len(s) : s[i] = sep
    THEN LET i == CHOOSE k \in 1..Len(s) :
                      s[k] = sep /\ \A j \in 1..(k - 1) : s[j] # sep
         IN  << SubSeq(s, 1, i - 1) >> \o Split(SubSeq(s, i + 1, Len(s)), sep)
    ELSE << s >>

Digits == {"0", "1", "2", "3", "4", "5", "6", "7", "8", "9"}

IsDigits(s) == \A i \in 1..Len(s) : s[i] \in Digits

\* The numeral without its sign.
Unsigned(s) == IF s # << >> /\ Head(s) \in {"+", "-"} THEN Tail(s) ELSE s

\* digits [ "." digits ], with a digit on at least one side of the point.
IsMantissa(s) ==
    LET parts == Split(s, ".")
    IN  /\ Len(parts) \in {1, 2}
        /\ \A i \in 1..Len(parts) : IsDigits(parts[i])
        /\ \E i \in 1..Len(parts) : parts[i] # << >>

\* [ sign ] digits, not empty: the exponent after "e".
IsExponent(s) == Unsigned(s) # << >> /\ IsDigits(Unsigned(s))

\* strconv.ParseFloat(amount, 64) returns no error: a decimal numeral with
\* an optional sign and an optional exponent, or one of "inf", "infinity"
\* and "nan" in any case.  (Hexadecimal numerals are left out.)
ParseFloatOK(s) ==
    LET u == Unsigned(s)
        parts == Split(u, "e")
    IN  \/ ToLower(u) \in { << "inf" >>, << "infinity" >>, << "nan" >> }
        \/ Len(parts) = 1 /\ IsMantissa(parts[1])
        \/ Len(parts) = 2 /\ IsMantissa(parts[1]) /\ IsExponent(parts[2])

\* parsed <= 0 for a numeral ParseFloat accepted: NaN compares false, an
\* infinity by its sign, a number by its sign and its digits.
ParsedLeqZero(s) ==
    LET u == Unsigned(s)
        mantissa == Split(u, "e")[1]
    IN  IF ToLower(u) = << "nan" >> THEN FALSE
        ELSE IF ToLower(u) \in { << "inf" >>, << "infinity" >> } THEN Head(s) = "-"
        ELSE \/ Head(s) = "-"
             \/ \A i \in 1..Len(mantissa) : mantissa[i] \in {"0", "."}

\* Variant: the sign of the parsed value is not tested.
ValidateAmountIgnoresSign(raw) ==
    LET amount == TrimSpace(raw)
        parts == Split(amount, ".")
    IN  IF amount = << >> THEN << "amount", "is", "required" >>
        ELSE IF ~ParseFloatOK(amount)
        THEN << "amount", "must", "be", "a", "valid", "decimal" >>
        ELSE IF Len(parts) = 2 /\ Len(parts[2]) > 2
        THEN << "amount", "must", "have", "at", "most", "2", "decimal", "places" >>
        ELSE << >>

\* model.ValidateAmount: the message of the error, << >> for nil.
ValidateAmount(raw) ==
    LET amount == TrimSpace(raw)
        parts == Split(amount, ".")
    IN  IF amount = << >> THEN << "amount", "is", "required" >>
        ELSE IF ~ParseFloatOK(amount)
        THEN << "amount", "must", "be", "a", "valid", "decimal" >>
        ELSE IF ParsedLeqZero(amount)
        THEN << "amount", "must", "be", "greater", "than", "0" >>
        ELSE IF Len(parts) = 2 /\ Len(parts[2]) > 2
        THEN << "amount", "must", "have", "at", "most", "2", "decimal", "places" >>
        ELSE << >>

\* The time texts time.Parse accepts, with the instant each denotes: two in
\* the layout time.RFC3339, two in the layout "2006-01-02".
RFC3339Times == ("2024-01-31T20:00:00+08:00" :> 1) @@ ("2024-01-31T18:00:00Z" :> 3)
DateTimes == ("2024-02-01" :> 2) @@ ("2024-01-15" :> 4)

\* parseOccurredAt: the instant, or the message of the error.
parseOccurredAt(raw) ==
    LET value == TrimSpace(raw)
    IN  IF value = << >>
        THEN [t |-> 0, err |-> << "time", "value", "is", "required" >>]
        ELSE IF Len(value) = 1 /\ value[1] \in DOMAIN RFC3339Times
        THEN [t |-> RFC3339Times[value[1]], err |-> << >>]
        ELSE IF Len(value) = 1 /\ value[1] \in DOMAIN DateTimes
        THEN [t |-> DateTimes[value[1]], err |-> << >>]
        ELSE [t |-> 0, err |-> << "must", "be", "RFC3339", "or", "YYYY-MM-DD" >>]

(***************************************************************************)
(* LedgerService.CreateDonation and CreateExpense: the checks made before  *)
(* the repository is called.                                               *)
(***************************************************************************)

\* service.DonationInput and service.ExpenseInput
DonationInput(actor, donor, donatedAt, amount, requestID) ==
    [ ActorUserID |-> actor, Donor |-> donor, DonatedAt |-> donatedAt,
      Amount |-> amount, RequestID |-> requestID ]

ExpenseInput(actor, purpose, handledBy, occurredAt, amount, requestID) ==
    [ ActorUserID |-> actor, Purpose |-> purpose, HandledBy |-> handledBy,
      OccurredAt |-> occurredAt, Amount |-> amount, RequestID |-> requestID ]

\* Variant: the amount is not validated before the repository is called.
validateDonationSkipsAmount(in) ==
    IF TrimSpace(in.Donor) = << >> THEN << "donor", "is", "required" >>
    ELSE IF TrimSpace(in.RequestID) = << >>
    THEN << "request", "id", "is", "required" >>
    ELSE IF parseOccurredAt(in.DonatedAt).err # << >>
    THEN << "invalid", "donatedAt:" >> \o parseOccurredAt(in.DonatedAt).err
    ELSE << >>

\* CreateDonation, up to the call of the repository: the message of the
\* error returned, << >> when the repository is called.
validateDonation(in) ==
    IF TrimSpace(in.Donor) = << >> THEN << "donor", "is", "required" >>
    ELSE IF TrimSpace(in.RequestID) = << >>
    THEN << "request", "id", "is", "required" >>
    ELSE IF ValidateAmount(in.Amount) # << >> THEN ValidateAmount(in.Amount)
    ELSE IF parseOccurredAt(in.DonatedAt).err # << >>
    THEN << "invalid", "donatedAt:" >> \o parseOccurredAt(in.DonatedAt).err
    ELSE << >>

\* CreateExpense, up to the call of the repository.
validateExpense(in) ==
    IF TrimSpace(in.Purpose) = << >> THEN << "purpose", "is", "required" >>
    ELSE IF TrimSpace(in.HandledBy) = << >> THEN << "handledBy", "is", "required" >>
    ELSE IF TrimSpace(in.RequestID) = << >>
    THEN << "request", "id", "is", "required" >>
    ELSE IF ValidateAmount(in.Amount) # << >> THEN ValidateAmount(in.Amount)
    ELSE IF parseOccurredAt(in.OccurredAt).err # << >>
    THEN << "invalid", "occurredAt:" >> \o parseOccurredAt(in.OccurredAt).err
    ELSE << >>

\* The repository.CreateLedgerEntryInput CreateDonation builds from a valid
\* input.
DonationEntry(in) ==
    DonationEntryInput(in.ActorUserID,
        [ amount |-> TrimSpace(in.Amount), at |-> parseOccurredAt(in.DonatedAt).t,
          who |-> TrimSpace(in.Donor) ])

\* The repository.CreateLedgerEntryInput CreateExpense builds.
ExpenseEntry(in) ==
    [ UserID |-> in.ActorUserID, EntryType |-> LedgerEntryTypeExpense,
      Amount |-> TrimSpace(in.Amount), OccurredAt |-> parseOccurredAt(in.OccurredAt).t,
      Description |-> << "purpose", TrimSpace(in.Purpose),
                         "handled_by", TrimSpace(in.HandledBy) >> ]

\* The request id handed to the repository: the one word of the trimmed text.
RequestIDOf(in) == TrimSpace(in.RequestID)[1]

(***************************************************************************)
(* The HTTP layer of app.Server: withAuth, withRole, the handlers of the   *)
(* ledger routes and the responses they write.                             *)
(***************************************************************************)

\* What writeErr and writeJSON send: the status, the message of an error
\* response and the entryId of a create.
Response(status, error, entryId) ==
    [status |-> status, error |-> error, entryId |-> entryId]

\* The Authorization header: absent, of another scheme, or a Bearer token,
\* which is forged or expired (ParseToken fails) or was issued by
\* generateToken as an access or a refresh token for a user and a role.
NoToken == [scheme |-> "", valid |-> FALSE, type |-> "", sub |-> 0, role |-> ""]

BearerToken(valid, type, sub, role) ==
    [scheme |-> "Bearer", valid |-> valid, type |-> type, sub |-> sub, role |-> role]

Roles == {"admin", "member"}

Tokens ==
    { NoToken, [NoToken EXCEPT !.scheme = "Basic"] }
        \cup { BearerToken(FALSE, "access", 1, "admin") }
        \cup { BearerToken(TRUE, "refresh", 1, "admin") }
        \cup { BearerToken(TRUE, "access", u, r) : u \in Users, r \in Roles }

\* Variant: the type claim of the token is not looked at.
withAuthAnyType(token) ==
    IF token.scheme # "Bearer"
    THEN [resp |-> Response(401, << "missing", "bearer", "token" >>, 0)]
    ELSE IF ~token.valid
    THEN [resp |-> Response(401, << "invalid", "token" >>, 0)]
    ELSE [resp |-> Response(0, << >>, 0), ID |-> token.sub, Role |-> token.role]

\* withAuth: the 401 it writes, or the authContextUser it hands on (status 0:
\* nothing written yet).
withAuth(token) ==
    IF token.scheme # "Bearer"
    THEN [resp |-> Response(401, << "missing", "bearer", "token" >>, 0)]
    ELSE IF ~token.valid
    THEN [resp |-> Response(401, << "invalid", "token" >>, 0)]
    ELSE IF token.type # "access"
    THEN [resp |-> Response(401, << "invalid", "access", "token", "type" >>, 0)]
    ELSE [resp |-> Response(0, << >>, 0), ID |-> token.sub, Role |-> token.role]

\* Variant: every authenticated user passes.
withRoleAnyone(requiredRole, user) == Response(0, << >>, 0)

\* withRole: the 403 it writes, or nothing.
withRole(requiredRole, user) ==
    IF user.Role # requiredRole
    THEN Response(403, << "forbidden" >>, 0)
    ELSE Response(0, << >>, 0)

\* r.Header.Get("Idempotency-Key"): the empty text when the header is absent.
HeaderGet(header) == IF header.present THEN header.value ELSE << >>

\* Variant: the header is used whenever it was sent, blank or not.
extractRequestIDHeaderIfPresent(header, bodyValue) ==
    IF header.present THEN TrimSpace(header.value) ELSE TrimSpace(bodyValue)

\* extractRequestID(r.Header.Get("Idempotency-Key"), req.RequestID)
extractRequestID(header, bodyValue) ==
    IF TrimSpace(HeaderGet(header)) # << >>
    THEN TrimSpace(HeaderGet(header))
    ELSE TrimSpace(bodyValue)

\* An error made by errors.New or fmt.Errorf in the service's validation.
ErrValidation == "ValidationError"

\* Error texts of the store: the driver's ErrInvalidConn and driver.ErrBadConn,
\* and two errors of the MySQL server.
StorageErrorTexts ==
    { << "invalid", "connection" >>,
      << "driver:", "bad", "connection" >>,
      << "Error", "1205", "(HY000):", "Lock", "wait", "timeout", "exceeded;",
         "try", "restarting", "transaction" >>,
      << "Error", "1366", "(HY000):", "Incorrect", "decimal", "value:",
         "'", "NaN", "'", "for", "column", "'", "amount", "'", "at", "row", "1" >> }

\* isValidationErr
isValidationErr(text) ==
    LET msg == ToLower(TrimSpace(text))
    IN  Contains(msg, "required") \/ Contains(msg, "invalid") \/ Contains(msg, "amount")

\* Variant: Conflict is answered like any other failure.
handleLedgerWriteErrorNoConflict(err, text) ==
    CASE err = ErrLedgerEntryNotFound ->
            Response(404, << "target", "entry", "not", "found" >>, 0)
      [] err = ErrIdempotencyRequestLocked ->
            Response(409, << "request", "is", "in", "progress" >>, 0)
      [] OTHER ->
            IF isValidationErr(text) THEN Response(400, text, 0)
            ELSE Response(500, << "failed", "to", "write", "ledger", "entry" >>, 0)

\* handleLedgerWriteError, for an error and its text (err.Error()).
handleLedgerWriteError(err, text) ==
    CASE err = ErrLedgerEntryNotFound ->
            Response(404, << "target", "entry", "not", "found" >>, 0)
      [] err = ErrIdempotencyConflict ->
            Response(409, << "idempotency", "key", "conflict" >>, 0)
      [] err = ErrIdempotencyRequestLocked ->
            Response(409, << "request", "is", "in", "progress" >>, 0)
      [] OTHER ->
            IF isValidationErr(text) THEN Response(400, text, 0)
            ELSE Response(500, << "failed", "to", "write", "ledger", "entry" >>, 0)

\* The texts of the sentinel errors of the repository.
ErrorText(err) ==
    CASE err = ErrIdempotencyConflict ->
            << "idempotency", "key", "already", "used", "by", "another", "request" >>
      [] err = ErrIdempotencyRequestLocked ->
            << "idempotent", "request", "is", "still", "in", "progress" >>
      [] err = ErrLedgerEntryNotFound -> << "ledger", "entry", "not", "found" >>
      [] err = ErrEntryAlreadyDeleted -> << "entry", "already", "deleted" >>
      [] OTHER -> << >>

\* The routes of registerRoutes that reach the ledger.
RouteDonations == "POST /api/ledger/donations"
RouteExpenses == "POST /api/ledger/expenses"
RouteDelete == "DELETE /api/ledger/entries/{id}"
RouteEntries == "GET /api/ledger/entries"
RouteSummary == "GET /api/summary"

\* What is kept of a request that was answered before it reached the
\* repository, or that reads: its route and the role of its token.
RouteRequest(route, role) == [Route |-> route, Role |-> role]

\* The values sent in requests.
Headers ==
    { [present |-> FALSE, value |-> << >>],
      [present |-> TRUE, value |-> << " " >>],
      [present |-> TRUE, value |-> << "r1" >>],
      [present |-> TRUE, value |-> << " ", "r2", " " >>] }

BodyRequestIDs == { << >>, << " " >>, << "r1" >>, << " ", "r2" >> }

NameTexts == { << "Alice" >>, << " ", "Bob", " " >>, << " " >>, << >> }

TimeTexts ==
    { << "2024-01-31T20:00:00+08:00" >>, << " ", "2024-02-01" >>,
      << "yesterday" >>, << >> }

AmountTexts ==
    { << "1", "0", "0", ".", "0", "0" >>, << " ", "5", "0", ".", "0", "0", " " >>,
      << >>, << "0", ".", "0", "0" >>, << "-", "5", ".", "0", "0" >>,
      << "a", "b", "c" >>, << "5", ".", "0", "0", "1" >>, << "NaN" >>,
      << "1", "e", "2" >> }

\* A well-formed donation request of admin 1, and the requests that differ
\* from it in the token, in the request id, or in one field of the body.
BaseDonation ==
    [ token |-> BearerToken(TRUE, "access", 1, "admin"), json |-> TRUE,
      header |-> [present |-> TRUE, value |-> << "r2" >>], requestId |-> << >>,
      donor |-> << "Alice" >>, donatedAt |-> << "2024-01-31T20:00:00+08:00" >>,
      amount |-> << "1", "0", "0", ".", "0", "0" >> ]

DonationRequests ==
    { [BaseDonation EXCEPT !.token = t] : t \in Tokens }
        \cup { [BaseDonation EXCEPT !.json = FALSE] }
        \cup { [BaseDonation EXCEPT !.header = h, !.requestId = r] :
                  h \in Headers, r \in BodyRequestIDs }
        \cup { [BaseDonation EXCEPT !.donor = d] : d \in NameTexts }
        \cup { [BaseDonation EXCEPT !.donatedAt = t] : t \in TimeTexts }
        \cup { [BaseDonation EXCEPT !.amount = a] : a \in AmountTexts }

BaseExpense ==
    [ token |-> BearerToken(TRUE, "access", 1, "admin"), json |-> TRUE,
      header |-> [present |-> TRUE, value |-> << "r2" >>], requestId |-> << >>,
      purpose |-> << "food" >>, handledBy |-> << "Alice" >>,
      occurredAt |-> << "2024-01-31T20:00:00+08:00" >>,
      amount |-> << "1", "0", "0", ".", "0", "0" >> ]

ExpenseRequests ==
    { [BaseExpense EXCEPT !.token = t] : t \in Tokens }
        \cup { [BaseExpense EXCEPT !.json = FALSE] }
        \cup { [BaseExpense EXCEPT !.header = h, !.requestId = r] :
                  h \in Headers, r \in BodyRequestIDs }
        \cup { [BaseExpense EXCEPT !.purpose = d] : d \in NameTexts }
        \cup { [BaseExpense EXCEPT !.handledBy = d] : d \in NameTexts }
        \cup { [BaseExpense EXCEPT !.occurredAt = t] : t \in TimeTexts }
        \cup { [BaseExpense EXCEPT !.amount = a] : a \in AmountTexts }

(***************************************************************************)
(* The requests.  A request is taken through withAuth, withRole and its    *)
(* handler up to the first statement sent to the store in one step: until  *)
(* then it reads and writes nothing shared.                                *)
(***************************************************************************)

\* A response is written before the repository was called.
Refuse(c, route, role, resp) ==
    /\ pc[c] = "idle"
    /\ \A d \in Calls : d < c => pc[d] # "idle"
    /\ pc' = [pc EXCEPT ![c] = "responded"]
    /\ result' = [result EXCEPT ![c] = resp]
    /\ request' = [request EXCEPT ![c] = RouteRequest(route, role)]
    /\ UNCHANGED << ledger_entries, ledger_idempotency_keys, auto_increment, auth, input,
                    txKey, txEntry, insertedID, existingID >>

\* The middleware of an admin route: the response it writes, status 0 when
\* the request reaches the handler.
AdminOnly(token) ==
    IF withAuth(token).resp.status # 0 THEN withAuth(token).resp
    ELSE withRole("admin", withAuth(token))

\* The role withRole saw, "" when withAuth turned the request down.
RoleOf(token) ==
    IF withAuth(token).resp.status # 0 THEN "" ELSE withAuth(token).Role

\* What a create handler does with a request before the repository is
\* called: the response it writes (status 0: none, the repository is called),
\* and the input and the request id it hands to the repository.
Outcome(resp, entry, rid) == [resp |-> resp, entry |-> entry, rid |-> rid]

\* handleCreateDonation and LedgerService.CreateDonation on request req.
createDonationOutcome(req) ==
    IF AdminOnly(req.token).status # 0
    THEN Outcome(AdminOnly(req.token), NoInput, "")
    ELSE IF ~req.json
    THEN Outcome(Response(400, << "invalid", "request", "body" >>, 0), NoInput, "")
    ELSE LET in == DonationInput(withAuth(req.token).ID, req.donor, req.donatedAt,
                       req.amount, extractRequestID(req.header, req.requestId))
         IN  IF validateDonation(in) # << >>
             THEN Outcome(handleLedgerWriteError(ErrValidation, validateDonation(in))
                              @@ Returned(0, FALSE, ErrValidation), NoInput, "")
             ELSE Outcome(Response(0, << >>, 0), DonationEntry(in), RequestIDOf(in))

\* handleCreateExpense and LedgerService.CreateExpense on request req.
createExpenseOutcome(req) ==
    IF AdminOnly(req.token).status # 0
    THEN Outcome(AdminOnly(req.token), NoInput, "")
    ELSE IF ~req.json
    THEN Outcome(Response(400, << "invalid", "request", "body" >>, 0), NoInput, "")
    ELSE LET in == ExpenseInput(withAuth(req.token).ID, req.purpose, req.handledBy,
                       req.occurredAt, req.amount,
                       extractRequestID(req.header, req.requestId))
         IN  IF validateExpense(in) # << >>
             THEN Outcome(handleLedgerWriteError(ErrValidation, validateExpense(in))
                              @@ Returned(0, FALSE, ErrValidation), NoInput, "")
             ELSE Outcome(Response(0, << >>, 0), ExpenseEntry(in), RequestIDOf(in))

\* The outcomes of the requests, computed once.
DonationOutcomes == [req \in DonationRequests |-> createDonationOutcome(req)]
ExpenseOutcomes == [req \in ExpenseRequests |-> createExpenseOutcome(req)]

\* POST /api/ledger/donations with request req.
handleCreateDonation(c, req) ==
    IF DonationOutcomes[req].resp.status # 0
    THEN Refuse(c, RouteDonations, RoleOf(req.token), DonationOutcomes[req].resp)
    ELSE Enter(c, DonationOutcomes[req].entry, DonationOutcomes[req].rid)

\* POST /api/ledger/expenses with request req.
handleCreateExpense(c, req) ==
    IF ExpenseOutcomes[req].resp.status # 0
    THEN Refuse(c, RouteExpenses, RoleOf(req.token), ExpenseOutcomes[req].resp)
    ELSE Enter(c, ExpenseOutcomes[req].entry, ExpenseOutcomes[req].rid)

\* DELETE /api/ledger/entries/{id} with a token and an id (0: not an entry id).
handleDeleteEntryRequest(c, token, id) ==
    IF AdminOnly(token).status # 0
    THEN Refuse(c, RouteDelete, RoleOf(token), AdminOnly(token))
    ELSE IF id = 0
    THEN Refuse(c, RouteDelete, RoleOf(token),
                Response(400, << "invalid", "entry", "id" >>, 0))
    ELSE /\ SoftDeleteEntry(c)
         /\ request'[c] = DeleteRequest(id, withAuth(token).ID)

\* GET /api/ledger/entries with a token and a type filter.
handleLedgerEntries(c, token, type) ==
    IF withAuth(token).resp.status # 0
    THEN Refuse(c, RouteEntries, "", withAuth(token).resp)
    ELSE /\ pc[c] = "idle"
         /\ \A d \in Calls : d < c => pc[d] # "idle"
         /\ pc' = [pc EXCEPT ![c] = "listEntries"]
         /\ request' = [request EXCEPT ![c] =
               ListRequest(type) @@ RouteRequest(RouteEntries, withAuth(token).Role)]
         /\ UNCHANGED << ledger_entries, ledger_idempotency_keys, auto_increment, auth, input,
                         txKey, txEntry, insertedID, existingID, result >>

\* GET /api/summary with a token and a month.
handleSummary(c, token, month) ==
    IF withAuth(token).resp.status # 0
    THEN Refuse(c, RouteSummary, "", withAuth(token).resp)
    ELSE /\ pc[c] = "idle"
         /\ \A d \in Calls : d < c => pc[d] # "idle"
         /\ request' = [request EXCEPT ![c] =
               SummaryRequest(month) @@ RouteRequest(RouteSummary, withAuth(token).Role)]
         /\ Return(c, SummaryReturned(summarySQL(ledger_entries, month), NoError))
         /\ UNCHANGED << ledger_entries, ledger_idempotency_keys, auto_increment, auth >>

\* The routes: a request arrives for a call that has none yet.
CreateDonationRoute(c) ==
    /\ pc[c] = "idle"
    /\ \E req \in DonationRequests : handleCreateDonation(c, req)

CreateExpenseRoute(c) ==
    /\ pc[c] = "idle"
    /\ \E req \in ExpenseRequests : handleCreateExpense(c, req)

DeleteEntryRoute(c) ==
    /\ pc[c] = "idle"
    /\ \E token \in Tokens, id \in {0} \cup EntryIDs :
          handleDeleteEntryRequest(c, token, id)

LedgerEntriesRoute(c) ==
    /\ pc[c] = "idle"
    /\ \E token \in Tokens, type \in TypeFilters :
          handleLedgerEntries(c, token, type)

SummaryRoute(c) ==
    /\ pc[c] = "idle"
    /\ \E token \in Tokens, month \in { p.at : p \in Payloads } :
          handleSummary(c, token, month)

\* The step takes call c from idle: it serves the request of the call.
Served(c) == pc[c] = "idle" /\ pc'[c] # "idle"

\* The call is a call of ListEntries or GetMonthlySummary.
IsRead(c) == Started(c) /\ "Route" \in DOMAIN request[c]

\* The response has been written.
Responded(c) == pc[c] = "responded"

\* The handler writes the response; what the service returned is kept with it.
Respond(c, resp) ==
    /\ pc[c] = "done"
    /\ pc' = [pc EXCEPT ![c] = "responded"]
    /\ result' = [result EXCEPT ![c] = resp @@ result[c]]
    /\ UNCHANGED << ledger_entries, ledger_idempotency_keys, auto_increment, auth, input,
                    request, txKey, txEntry, insertedID, existingID >>

\* handleCreateDonation, handleCreateExpense: 201 with the entryId, or
\* handleLedgerWriteError.  A failure of the store has one of its texts.
RespondCreate(c) ==
    /\ IsCreate(c)
    /\ pc[c] = "done"
    /\ IF result[c].err = NoError
       THEN Respond(c, Response(201, << >>, result[c].entryID))
       ELSE IF result[c].err = ErrStorage
       THEN \E text \in StorageErrorTexts :
               Respond(c, handleLedgerWriteError(ErrStorage, text))
       ELSE Respond(c, handleLedgerWriteError(result[c].err, ErrorText(result[c].err)))

\* handleDeleteEntry: 204, or the status of the error.
RespondDelete(c) ==
    /\ IsDelete(c)
    /\ pc[c] = "done"
    /\ Respond(c, handleDeleteEntry(result[c].err))

\* handleLedgerEntries, handleSummary: 200 with the result, or 500.
RespondRead(c) ==
    /\ IsRead(c)
    /\ pc[c] = "done"
    /\ IF result[c].err = NoError
       THEN Respond(c, Response(200, << >>, 0))
       ELSE Respond(c, Response(500, << "failed", "to", "list", "ledger", "entries" >>, 0))

NextAPI ==
    \E c \in Calls :
        \/ CreateDonationRoute(c)
        \/ CreateExpenseRoute(c)
        \/ DeleteEntryRoute(c)
        \/ LedgerEntriesRoute(c)
        \/ SummaryRoute(c)
        \/ ReserveKey(c)
        \/ ReserveDuplicate(c)
        \/ ReserveError(c)
        \/ FindExisting(c)
        \/ FindError(c)
        \/ CommitReplay(c)
        \/ ReplayCommitError(c)
        \/ InsertEntry(c)
        \/ InsertEntryError(c)
        \/ LastInsertIdError(c)
        \/ Backfill(c)
        \/ BackfillError(c)
        \/ Commit(c)
        \/ CommitError(c)
        \/ ContextCancelled(c)
        \/ CheckDeleted(c)
        \/ CheckDeletedError(c)
        \/ SoftDelete(c)
        \/ SoftDeleteError(c)
        \/ RowsAffectedError(c)
        \/ ListEntriesRows(c)
        \/ CountEntries(c)
        \/ ReadError(c)
        \/ RespondCreate(c)
        \/ RespondDelete(c)
        \/ RespondRead(c)

\* The ledger routes of the server, on a store that holds the reserved
\* record of "r1".
SpecAPI == InitReserved /\ [][NextAPI]_vars

\* The request reaches the service: withAuth and withRole let it through and
\* its body decodes.
ReachesService(req) == AdminOnly(req.token).status = 0 /\ req.json

\* The donation requests whose service input lacks the donor or the request
\* id after trimming, or has an amount or a time that is turned down.
InvalidDonations ==
    { req \in DonationRequests :
        /\ ReachesService(req)
        /\ \/ TrimSpace(req.donor) = << >>
           \/ TrimSpace(extractRequestID(req.header, req.requestId)) = << >>
           \/ ValidateAmount(req.amount) # << >>
           \/ parseOccurredAt(req.donatedAt).err # << >> }

\* The expense requests with such an input.
InvalidExpenses ==
    { req \in ExpenseRequests :
        /\ ReachesService(req)
        /\ \/ TrimSpace(req.purpose) = << >>
           \/ TrimSpace(req.handledBy) = << >>
           \/ TrimSpace(extractRequestID(req.header, req.requestId)) = << >>
           \/ ValidateAmount(req.amount) # << >>
           \/ parseOccurredAt(req.occurredAt).err # << >> }

\* The call was turned down by the service before the repository was called.
RefusedInvalid(c) ==
    /\ Responded(c)
    /\ "err" \in DOMAIN result[c]
    /\ result[c].err = ErrValidation

(***************************************************************************)
(* C16. Validation precedes storage: a step that serves a create request   *)
(* whose donor, purpose or handledBy is missing, whose request id is empty *)
(* after trimming, or whose amount or time is turned down, ends the call   *)
(* with a validation error at once: no transaction is opened, no           *)
(* idempotency record is reserved and no entry is written.                 *)
(***************************************************************************)
C16_Step ==
    \A c \in Calls :
        (/\ Served(c)
         /\ \/ \E req \in InvalidDonations : handleCreateDonation(c, req)
            \/ \E req \in InvalidExpenses : handleCreateExpense(c, req))
            => /\ RefusedInvalid(c)'
               /\ txKey'[c] = NoRow
               /\ txEntry'[c] = txEntry[c]
               /\ ledger_entries' = ledger_entries
               /\ ledger_idempotency_keys' = ledger_idempotency_keys
               /\ auto_increment' = auto_increment

C16_ValidationPrecedesStorage == [][C16_Step]_vars

\* A request with an invalid amount and one with an empty request id were
\* turned down, and the store is as it was at the start.
C16_Witness ==
    /\ \A c \in Calls : RefusedInvalid(c)
    /\ \E c \in Calls : "amount" \in { result[c].error[i] : i \in DOMAIN result[c].error }
    /\ \E c \in Calls : result[c].error = << "request", "id", "is", "required" >>
    /\ DOMAIN ledger_entries = {}
    /\ DOMAIN ledger_idempotency_keys = {"r1"}

\* The create call ended in a failure of the store and was answered.
StorageFailureAnswered(c) ==
    /\ Responded(c)
    /\ IsCreate(c)
    /\ result[c].err = ErrStorage

(***************************************************************************)
(* C17. Every failure of the store during a ledger write is answered with  *)
(* status 500 and the generic message "failed to write ledger entry",      *)
(* whatever the text of the error: never with 400, never with the text of  *)
(* the error in the body.                                                  *)
(***************************************************************************)
C17_StorageFailureIs500 ==
    \A c \in Calls :
        StorageFailureAnswered(c) =>
            /\ result[c].status = 500
            /\ result[c].error = << "failed", "to", "write", "ledger", "entry" >>
            /\ result[c].error \notin StorageErrorTexts

\* The create call reached the repository, returned err and was answered.
CreateAnswered(c, err) ==
    /\ Responded(c)
    /\ IsCreate(c)
    /\ result[c].err = err

(***************************************************************************)
(* C18. The create endpoints map outcomes to statuses: a first execution   *)
(* and a replay are both answered 201 with the entryId of the entry bound  *)
(* to the request id, so with the same entryId; Conflict is answered 409,  *)
(* RequestInProgress is answered 409, and a validation failure of the      *)
(* service is answered 400.                                                *)
(***************************************************************************)
C18_StatusMapping ==
    \A c \in Calls :
        /\ CreateAnswered(c, NoError) =>
              /\ result[c].status = 201
              /\ result[c].entryId # 0
              /\ request[c].RequestID \in DOMAIN ledger_idempotency_keys
              /\ result[c].entryId =
                    ledger_idempotency_keys[request[c].RequestID].entry_id
              /\ \A d \in Calls :
                    (CreateAnswered(d, NoError)
                        /\ request[d].RequestID = request[c].RequestID)
                        => result[d].entryId = result[c].entryId
        /\ CreateAnswered(c, ErrIdempotencyConflict) => result[c].status = 409
        /\ CreateAnswered(c, ErrIdempotencyRequestLocked) => result[c].status = 409
        /\ RefusedInvalid(c) => result[c].status = 400

\* A create was answered 201, and its replay was answered 201 with the same
\* entryId.
C18_Witness ==
    \E c, d \in Calls :
        /\ CreateAnswered(c, NoError) /\ ~result[c].wasReplayed
        /\ CreateAnswered(d, NoError) /\ result[d].wasReplayed
        /\ request[d].RequestID = request[c].RequestID
        /\ result[c].status = 201 /\ result[d].status = 201
        /\ result[d].entryId = result[c].entryId

\* A call was answered 409 for a conflict, another 409 for a request in
\* progress.
C18_WitnessConflicts ==
    \E c, d \in Calls :
        /\ CreateAnswered(c, ErrIdempotencyConflict)
        /\ CreateAnswered(d, ErrIdempotencyRequestLocked)

\* The request id of a create request as the header-if-present rule gives it:
\* the trimmed Idempotency-Key header when the request has the header, the
\* trimmed requestId of the body when it has not.
HeaderIfPresent(req) ==
    IF req.header.present THEN TrimSpace(req.header.value)
    ELSE TrimSpace(req.requestId)

\* What a step that serves create request req does about the request id
\* HeaderIfPresent gives: an empty one is turned down with 400 and nothing
\* is written, any other one is the request id of the call.
UsesHeaderIfPresent(c, req) ==
    IF HeaderIfPresent(req) = << >>
    THEN /\ RefusedInvalid(c)'
         /\ result'[c].status = 400
         /\ result'[c].error = << "request", "id", "is", "required" >>
         /\ ledger_entries' = ledger_entries
         /\ ledger_idempotency_keys' = ledger_idempotency_keys
    ELSE /\ ~RefusedInvalid(c)'
         /\ IsCreate(c)'
         /\ request'[c].RequestID = HeaderIfPresent(req)[1]

\* The well-formed create requests of an admin, with every header and every
\* requestId of the body.
DonationsByRequestID ==
    { [BaseDonation EXCEPT !.header = h, !.requestId = r] :
          h \in Headers, r \in BodyRequestIDs }

ExpensesByRequestID ==
    { [BaseExpense EXCEPT !.header = h, !.requestId = r] :
          h \in Headers, r \in BodyRequestIDs }

(***************************************************************************)
(* C19. The request id used for a create is the trimmed Idempotency-Key    *)
(* header when the header is present, otherwise the trimmed requestId of   *)
(* the body; when that value is empty the request is turned down as a      *)
(* validation error (400) and nothing is written.                          *)
(***************************************************************************)
C19_Step ==
    \A c \in Calls :
        Served(c) =>
            /\ \A req \in DonationsByRequestID :
                  handleCreateDonation(c, req) => UsesHeaderIfPresent(c, req)
            /\ \A req \in ExpensesByRequestID :
                  handleCreateExpense(c, req) => UsesHeaderIfPresent(c, req)

C19_RequestIDSource == [][C19_Step]_vars

\* The token is a valid access token: a Bearer token that verifies and whose
\* type claim is "access".
ValidAccessToken(token) ==
    token.scheme = "Bearer" /\ token.valid /\ token.type = "access"

\* The step answered call c with the status and changed nothing stored.
AnsweredUnchanged(c, status) ==
    /\ Responded(c)'
    /\ result'[c].status = status
    /\ ledger_entries' = ledger_entries
    /\ ledger_idempotency_keys' = ledger_idempotency_keys
    /\ auto_increment' = auto_increment
    /\ txKey' = txKey
    /\ txEntry' = txEntry

\* What a step that serves a request of an admin route does about its token.
AdminGate(c, token) ==
    IF ~ValidAccessToken(token) THEN AnsweredUnchanged(c, 401)
    ELSE token.role # "admin" => AnsweredUnchanged(c, 403)

\* What a step that serves a request of a route open to every role does
\* about its token: the handler runs for the role of the token.
OpenGate(c, token) ==
    IF ~ValidAccessToken(token) THEN AnsweredUnchanged(c, 401)
    ELSE /\ ~Responded(c)'
         /\ IsRead(c)'
         /\ request'[c].Role = token.role

(***************************************************************************)
(* C20. Role gating: a request to POST /api/ledger/donations, POST         *)
(* /api/ledger/expenses or DELETE /api/ledger/entries/{id} whose caller is *)
(* not an admin is answered 403 and changes no ledger entry and no         *)
(* idempotency record; without a valid access token it is answered 401 and *)
(* changes nothing; GET /api/ledger/entries and GET /api/summary are       *)
(* served to every authenticated role.                                     *)
(***************************************************************************)
C20_Step ==
    \A c \in Calls :
        Served(c) =>
            /\ \A req \in DonationRequests :
                  handleCreateDonation(c, req) => AdminGate(c, req.token)
            /\ \A req \in ExpenseRequests :
                  handleCreateExpense(c, req) => AdminGate(c, req.token)
            /\ \A token \in Tokens, id \in {0} \cup EntryIDs :
                  handleDeleteEntryRequest(c, token, id) => AdminGate(c, token)
            /\ \A token \in Tokens, type \in TypeFilters :
                  handleLedgerEntries(c, token, type) => OpenGate(c, token)
            /\ \A token \in Tokens, month \in { p.at : p \in Payloads } :
                  handleSummary(c, token, month) => OpenGate(c, token)

C20_RoleGating == [][C20_Step]_vars

\* A member was answered 403 on an admin route and a caller without a token
\* 401, and the store is as it was at the start.
C20_Witness ==
    /\ \E c \in Calls :
          /\ Responded(c) /\ result[c].status = 403
          /\ request[c].Role = "member"
          /\ request[c].Route \in {RouteDonations, RouteExpenses, RouteDelete}
    /\ \E c \in Calls :
          /\ Responded(c) /\ result[c].status = 401
          /\ request[c].Route \in {RouteDonations, RouteExpenses, RouteDelete}
    /\ DOMAIN ledger_entries = {}
    /\ DOMAIN ledger_idempotency_keys = {"r1"}

\* A member's GET /api/ledger/entries was answered 200.
C20_WitnessServed ==
    \E c \in Calls :
        /\ Responded(c) /\ result[c].status = 200
        /\ IsRead(c)
        /\ request[c].Role = "member"
        /\ request[c].Route = RouteEntries

(***************************************************************************)
(* LedgerService.UpdateLedgerEntry with its checks: the entry id, the      *)
(* amount, GetEntryByID, then the fields the type of the entry requires    *)
(* and repo.UpdateEntry.                                                   *)
(***************************************************************************)

\* service.UpdateLedgerEntryInput
ServiceUpdateInput(entryID, donor, donatedAt, purpose, handledBy, occurredAt, amount) ==
    [ EntryID |-> entryID, Donor |-> donor, DonatedAt |-> donatedAt,
      Purpose |-> purpose, HandledBy |-> handledBy, OccurredAt |-> occurredAt,
      Amount |-> amount ]

\* What UpdateLedgerEntry returns: the error, and the message of an error
\* of its checks.
UpdateReturned(err, text) == [err |-> err, text |-> text]

\* The call of UpdateLedgerEntry as the properties see it.
ServiceUpdateRequest(in) == [UpdateID |-> in.EntryID, Input |-> in]

\* Variant: the amount is not checked.
checkUpdateArgumentsNoAmount(in) ==
    IF in.EntryID = 0 THEN << "entry", "id", "is", "required" >> ELSE << >>

\* UpdateLedgerEntry before GetEntryByID: the entry id and the amount.
checkUpdateArguments(in) ==
    IF in.EntryID = 0 THEN << "entry", "id", "is", "required" >>
    ELSE ValidateAmount(in.Amount)

\* Variant: the fields of a donation are asked of every entry.
checkUpdateFieldsAsDonation(entryType, in) ==
    IF TrimSpace(in.Donor) = << >> THEN << "donor", "is", "required" >>
    ELSE IF parseOccurredAt(in.DonatedAt).err # << >>
    THEN << "invalid", "donatedAt:" >> \o parseOccurredAt(in.DonatedAt).err
    ELSE << >>

\* UpdateLedgerEntry after GetEntryByID: the switch on entry.EntryType.
checkUpdateFields(entryType, in) ==
    CASE entryType = LedgerEntryTypeDonation ->
            IF TrimSpace(in.Donor) = << >> THEN << "donor", "is", "required" >>
            ELSE IF parseOccurredAt(in.DonatedAt).err # << >>
            THEN << "invalid", "donatedAt:" >> \o parseOccurredAt(in.DonatedAt).err
            ELSE << >>
      [] entryType = LedgerEntryTypeExpense ->
            IF TrimSpace(in.Purpose) = << >> THEN << "purpose", "is", "required" >>
            ELSE IF TrimSpace(in.HandledBy) = << >>
            THEN << "handledBy", "is", "required" >>
            ELSE IF parseOccurredAt(in.OccurredAt).err # << >>
            THEN << "invalid", "occurredAt:" >> \o parseOccurredAt(in.OccurredAt).err
            ELSE << >>
      [] OTHER -> << "invalid", "entry", "type" >>

\* The repository.UpdateLedgerEntryInput built for an entry of the type.
buildUpdateInput(entryType, in) ==
    IF entryType = LedgerEntryTypeDonation
    THEN [ EntryID |-> in.EntryID, Amount |-> TrimSpace(in.Amount),
           OccurredAt |-> parseOccurredAt(in.DonatedAt).t,
           Description |-> << "donor", TrimSpace(in.Donor) >> ]
    ELSE [ EntryID |-> in.EntryID, Amount |-> TrimSpace(in.Amount),
           OccurredAt |-> parseOccurredAt(in.OccurredAt).t,
           Description |-> << "purpose", TrimSpace(in.Purpose),
                              "handled_by", TrimSpace(in.HandledBy) >> ]

\* The inputs of UpdateLedgerEntry: every entry id with every amount, and
\* for the two entries of the store a well-formed input and the inputs that
\* differ from it in one field.
UpdateAmounts == { << "7", "5", ".", "5", "0" >>, << "0", ".", "0", "0" >>, << >> }

BaseUpdate ==
    ServiceUpdateInput(1, << "Carol" >>, << "2024-02-01" >>, << "vet" >>,
        << " ", "Dave" >>, << "2024-01-31T20:00:00+08:00" >>,
        << "7", "5", ".", "5", "0" >>)

UpdateInputs ==
    { [BaseUpdate EXCEPT !.EntryID = id, !.Amount = a] :
          id \in {0} \cup EntryIDs, a \in UpdateAmounts }
        \cup { [BaseUpdate EXCEPT !.EntryID = id, !.Donor = << " " >>] : id \in {1, 2} }
        \cup { [BaseUpdate EXCEPT !.EntryID = id, !.DonatedAt = << "yesterday" >>] :
                  id \in {1, 2} }
        \cup { [BaseUpdate EXCEPT !.EntryID = id, !.Purpose = << >>] : id \in {1, 2} }
        \cup { [BaseUpdate EXCEPT !.EntryID = id, !.HandledBy = << " " >>] : id \in {1, 2} }
        \cup { [BaseUpdate EXCEPT !.EntryID = id, !.OccurredAt = << >>] : id \in {1, 2} }

\* UpdateLedgerEntry is called with one of the inputs: the entry id and the
\* amount are checked.
ServiceUpdateWith(c, inputs) ==
    /\ pc[c] = "idle"
    /\ \A d \in Calls : d < c => pc[d] # "idle"
    /\ \E in \in inputs :
          /\ request' = [request EXCEPT ![c] = ServiceUpdateRequest(in)]
          /\ IF checkUpdateArguments(in) # << >>
             THEN Return(c, UpdateReturned(ErrValidation, checkUpdateArguments(in)))
             ELSE /\ pc' = [pc EXCEPT ![c] = "getEntry"]
                  /\ UNCHANGED << input, txKey, txEntry, insertedID, existingID, result >>
    /\ UNCHANGED << ledger_entries, ledger_idempotency_keys, auto_increment, auth >>

ServiceUpdate(c) == ServiceUpdateWith(c, UpdateInputs)

\* repo.GetEntryByID, then the checks of the fields of the entry's type.
ServiceGetEntry(c) ==
    /\ pc[c] = "getEntry"
    /\ LET id == request[c].UpdateID
           in == request[c].Input
       IN  IF id \notin DOMAIN ledger_entries
           THEN Return(c, UpdateReturned(ErrLedgerEntryNotFound,
                             ErrorText(ErrLedgerEntryNotFound)))
           ELSE IF checkUpdateFields(ledger_entries[id].entry_type, in) # << >>
           THEN Return(c, UpdateReturned(ErrValidation,
                             checkUpdateFields(ledger_entries[id].entry_type, in)))
           ELSE /\ input' = [input EXCEPT ![c] =
                       buildUpdateInput(ledger_entries[id].entry_type, in)]
                /\ pc' = [pc EXCEPT ![c] = "updateEntry"]
                /\ UNCHANGED << txKey, txEntry, insertedID, existingID, result >>
    /\ UNCHANGED << ledger_entries, ledger_idempotency_keys, auto_increment, auth, request >>

\* The store the corrections run on: entry 1 is a live donation, entry 2 an
\* expense that was soft-deleted, no row has id 3.
DonationToCorrect ==
    EntryRow(DonationEntry(DonationInput(1, << "Alice" >>,
        << "2024-01-31T20:00:00+08:00" >>, << "1", "0", "0", ".", "0", "0" >>,
        << "r1" >>)))

ExpenseToCorrect ==
    [ EntryRow(ExpenseEntry(ExpenseInput(2, << "food" >>, << "Bob" >>,
          << "2024-02-01" >>, << "5", "0", ".", "0", "0" >>, << "r2" >>)))
        EXCEPT !.deleted_at = 1, !.deleted_by = 2 ]

EntriesToCorrect == (1 :> DonationToCorrect) @@ (2 :> ExpenseToCorrect)

InitUpdate ==
    /\ ledger_entries = EntriesToCorrect
    /\ ledger_idempotency_keys =
          ("r1" :> [KeyRow(LedgerEntryTypeDonation, 1) EXCEPT !.entry_id = 1])
    /\ auto_increment = 3
    /\ InitCalls

(***************************************************************************)
(* The routing of http.ServeMux over the patterns of registerRoutes.       *)
(***************************************************************************)

\* The patterns registerRoutes registers, as method and path.
Pattern(method, path) == [method |-> method, path |-> path]

RegisteredPatterns ==
    { Pattern("GET", "/health"), Pattern("GET", "/"),
      Pattern("POST", "/api/auth/register"), Pattern("POST", "/api/auth/login"),
      Pattern("POST", "/api/auth/refresh"), Pattern("POST", "/api/auth/logout"),
      Pattern("POST", "/api/ledger/validate-amount"),
      Pattern("POST", "/api/ledger/donations"),
      Pattern("POST", "/api/ledger/expenses"),
      Pattern("DELETE", "/api/ledger/entries/{id}"),
      Pattern("GET", "/api/summary"), Pattern("GET", "/api/ledger/entries"),
      Pattern("GET", "/api/admin/ping"), Pattern("POST", "/api/admin/init") }

\* The pattern "GET /" ends in a slash: it matches every path.
PatternMatchesPath(pattern, path) == pattern.path = path \/ pattern.path = "/"

\* What the mux does with a request: status 0 when a pattern of the method
\* matches and its handler is called, 405 when patterns match the path but
\* none has the method, 404 when no pattern matches the path.
ServeMux(method, path) ==
    IF \E p \in RegisteredPatterns : p.method = method /\ PatternMatchesPath(p, path)
    THEN Response(0, << >>, 0)
    ELSE IF \E p \in RegisteredPatterns : PatternMatchesPath(p, path)
    THEN Response(405, << "Method", "Not", "Allowed" >>, 0)
    ELSE Response(404, << "404", "page", "not", "found" >>, 0)

RoutePatch == "PATCH /api/ledger/entries/{id}"

\* PATCH /api/ledger/entries/{id} with a token: the mux answers, no
\* middleware and no handler runs.  The role of the token is kept with the
\* request.
PatchEntryRoute(c) ==
    /\ pc[c] = "idle"
    /\ ServeMux("PATCH", "/api/ledger/entries/{id}").status # 0
    /\ \E token \in Tokens :
          Refuse(c, RoutePatch, RoleOf(token),
                 ServeMux("PATCH", "/api/ledger/entries/{id}"))

\* Corrections, soft deletions and PATCH requests, running concurrently.
NextUpdate ==
    \E c \in Calls :
        \/ ServiceUpdate(c)
        \/ ServiceGetEntry(c)
        \/ UpdateEntryRow(c)
        \/ UpdateError(c)
        \/ SoftDeleteEntry(c)
        \/ CheckDeleted(c)
        \/ CheckDeletedError(c)
        \/ SoftDelete(c)
        \/ SoftDeleteError(c)
        \/ RowsAffectedError(c)
        \/ PatchEntryRoute(c)

SpecUpdate == InitUpdate /\ [][NextUpdate]_vars

(***************************************************************************)
(* C21: what a correction may answer and what it may change.               *)
(***************************************************************************)

\* Call c of UpdateLedgerEntry returns in this step.
UpdateReturns(c) == IsUpdate(c)' /\ ~Done(c) /\ Done(c)'

\* Text raw is one of the well-formed time texts.
WellFormedTime(raw) ==
    raw \in { << text >> : text \in DOMAIN RFC3339Times \cup DOMAIN DateTimes }

\* The fields the type of entry e requires are present in the input, and
\* the time of the type is well-formed.
RequiredFieldsPresent(e, in) ==
    \/ /\ e.entry_type = LedgerEntryTypeDonation
       /\ TrimSpace(in.Donor) # << >>
       /\ WellFormedTime(in.DonatedAt)
    \/ /\ e.entry_type = LedgerEntryTypeExpense
       /\ TrimSpace(in.Purpose) # << >>
       /\ TrimSpace(in.HandledBy) # << >>
       /\ WellFormedTime(in.OccurredAt)

\* Row t is row s with another amount, time and description, and nothing
\* else changed.
CorrectedRow(s, t) ==
    t = [s EXCEPT !.amount = t.amount, !.occurred_at = t.occurred_at,
                  !.description = t.description]

\* The store is as it was.
StoreUnchanged ==
    UNCHANGED << ledger_entries, ledger_idempotency_keys, auto_increment >>

C21_Step ==
    \A c \in Calls :
        /\ (IsUpdate(c)' /\ pc'[c] # pc[c] /\ ~Done(c)') => StoreUnchanged
        /\ UpdateReturns(c) =>
              LET id == request'[c].UpdateID
                  in == request'[c].Input
                  err == result'[c].err
              IN  /\ err \in {NoError, ErrValidation, ErrLedgerEntryNotFound, ErrStorage}
                  /\ err # NoError => StoreUnchanged
                  /\ err = ErrLedgerEntryNotFound =>
                        /\ id \notin DOMAIN ledger_entries
                        /\ id # 0 /\ ValidateAmount(in.Amount) = << >>
                  /\ (id # 0 /\ ValidateAmount(in.Amount) = << >>
                        /\ id \notin DOMAIN ledger_entries) =>
                        err \in {ErrLedgerEntryNotFound, ErrStorage}
                  /\ (id = 0 \/ ValidateAmount(in.Amount) # << >>) =>
                        err = ErrValidation
                  /\ (id \in DOMAIN ledger_entries /\ id # 0
                        /\ ValidateAmount(in.Amount) = << >>) =>
                        IF RequiredFieldsPresent(ledger_entries[id], in)
                        THEN err \in {NoError, ErrStorage}
                        ELSE err \in {ErrValidation, ErrStorage}
                  /\ err = NoError =>
                        /\ DOMAIN ledger_entries' = DOMAIN ledger_entries
                        /\ \A other \in DOMAIN ledger_entries \ {id} :
                              ledger_entries'[other] = ledger_entries[other]
                        /\ CorrectedRow(ledger_entries[id], ledger_entries'[id])
                        /\ ledger_entries'[id].amount = TrimSpace(in.Amount)
                        /\ UNCHANGED << ledger_idempotency_keys, auto_increment >>

\* C21 (amended): UpdateLedgerEntry first checks the entry id and the
\* amount and answers a validation error when the id is 0 or the amount is
\* invalid; with these valid, an id with no entry is answered NotFound and
\* an existing entry has the required fields of its type checked; every
\* answer but success leaves the store as it was, and success changes only
\* the amount, occurred_at and description of that entry, never its
\* entry_type, user_id, id or soft-delete marker, and no other entry.
C21_UpdateFrame == [][C21_Step]_vars

\* C21 as stated: an update of an id with no entry that the store did not
\* fail is answered NotFound.
C21_AbsentIsNotFound ==
    \A c \in Calls :
        (IsUpdate(c) /\ Done(c) /\ request[c].UpdateID \notin DOMAIN ledger_entries
            /\ result[c].err # ErrStorage)
        => result[c].err = ErrLedgerEntryNotFound

\* A soft-deleted expense was corrected: its amount changed, its marker
\* did not.
C21_Witness ==
    \E c \in Calls :
        /\ IsUpdate(c) /\ Done(c) /\ result[c].err = NoError
        /\ request[c].UpdateID = 2
        /\ ledger_entries[2].amount = << "7", "5", ".", "5", "0" >>
        /\ ledger_entries[2].deleted_at = 1
        /\ ledger_entries[2].entry_type = LedgerEntryTypeExpense

\* An update of an id with no entry was answered NotFound.
C21_WitnessNotFound ==
    \E c \in Calls :
        /\ IsUpdate(c) /\ Done(c) /\ result[c].err = ErrLedgerEntryNotFound
        /\ request[c].UpdateID = 3

\* C22: a PATCH /api/ledger/entries/{id} request that carries the access
\* token of an admin is answered 200, 404 or 400, the answers of the update.
C22_PatchReachesUpdate ==
    \A c \in Calls :
        (Responded(c) /\ "Route" \in DOMAIN request[c]
            /\ request[c].Route = RoutePatch /\ request[c].Role = "admin")
        => result[c].status \in {200, 404, 400}

(***************************************************************************)
(* The column amount DECIMAL(12,2) with CHECK (amount > 0): what MySQL     *)
(* stores for the text the repository binds to the statement.  The digits  *)
(* are handled as text, as the server's decimal type does, so that no      *)
(* value is cut to the width of an integer.                                *)
(***************************************************************************)

Zeros(n) == [i \in 1..n |-> "0"]

DigitValues ==
    ("0" :> 0) @@ ("1" :> 1) @@ ("2" :> 2) @@ ("3" :> 3) @@ ("4" :> 4)
        @@ ("5" :> 5) @@ ("6" :> 6) @@ ("7" :> 7) @@ ("8" :> 8) @@ ("9" :> 9)

NextDigit ==
    ("0" :> "1") @@ ("1" :> "2") @@ ("2" :> "3") @@ ("3" :> "4") @@ ("4" :> "5")
        @@ ("5" :> "6") @@ ("6" :> "7") @@ ("7" :> "8") @@ ("8" :> "9")

\* The number a sequence of digits denotes (used for exponents only).
RECURSIVE NatOf(_)
NatOf(digits) ==
    IF digits = << >> THEN 0
    ELSE 10 * NatOf(SubSeq(digits, 1, Len(digits) - 1)) + DigitValues[digits[Len(digits)]]

\* The digits of the number one above.
RECURSIVE Increment(_)
Increment(digits) ==
    IF digits = << >> THEN << "1" >>
    ELSE IF digits[Len(digits)] = "9"
    THEN Increment(SubSeq(digits, 1, Len(digits) - 1)) \o << "0" >>
    ELSE SubSeq(digits, 1, Len(digits) - 1) \o << NextDigit[digits[Len(digits)]] >>

RECURSIVE StripZeros(_)
StripZeros(digits) ==
    IF digits # << >> /\ Head(digits) = "0" THEN StripZeros(Tail(digits)) ELSE digits

\* A numeral [sign] mantissa [e exponent] as a sign, the digits before the
\* point and the digits after it, the exponent applied.
Numeral(text) ==
    LET parts == Split(Unsigned(text), "e")
        mantissa == Split(parts[1], ".")
        fraction == IF Len(mantissa) = 2 THEN mantissa[2] ELSE << >>
        exponent == IF Len(parts) = 1 THEN 0
                    ELSE IF Head(parts[2]) = "-" THEN 0 - NatOf(Unsigned(parts[2]))
                    ELSE NatOf(Unsigned(parts[2]))
        digits == mantissa[1] \o fraction
        point == Len(mantissa[1]) + exponent
    IN  [ neg |-> Head(text) = "-",
          whole |-> IF point <= 0 THEN << >>
                    ELSE IF point >= Len(digits)
                    THEN digits \o Zeros(point - Len(digits))
                    ELSE SubSeq(digits, 1, point),
          fraction |-> IF point <= 0 THEN Zeros(0 - point) \o digits
                       ELSE IF point >= Len(digits) THEN << >>
                       ELSE SubSeq(digits, point + 1, Len(digits)) ]

\* The numeral rounded half away from zero to `scale` digits after the
\* point: its digits before the point, without leading zeros, and after.
Rounded(n, scale) ==
    LET kept == SubSeq(n.fraction \o Zeros(scale), 1, scale)
        up == Len(n.fraction) > scale /\ DigitValues[n.fraction[scale + 1]] >= 5
        all == IF up THEN Increment(n.whole \o kept) ELSE n.whole \o kept
    IN  [ neg |-> n.neg,
          whole |-> StripZeros(SubSeq(all, 1, Len(all) - scale)),
          fraction |-> SubSeq(all, Len(all) - scale + 1, Len(all)) ]

IsZero(n) == \A i \in 1..Len(n.whole \o n.fraction) : (n.whole \o n.fraction)[i] = "0"

\* The text of a DECIMAL value as the server returns it.
DecimalText(n) ==
    (IF n.neg /\ ~IsZero(n) THEN << "-" >> ELSE << >>)
        \o (IF n.whole = << >> THEN << "0" >> ELSE n.whole)
        \o (IF n.fraction = << >> THEN << >> ELSE << "." >> \o n.fraction)

\* The text is a number for the server: a numeral, not "NaN" or "Inf".
IsNumeral(text) ==
    LET parts == Split(Unsigned(text), "e")
    IN  \/ Len(parts) = 1 /\ IsMantissa(parts[1])
        \/ Len(parts) = 2 /\ IsMantissa(parts[1]) /\ IsExponent(parts[2])

\* A column DECIMAL(precision, scale) assigned the text: the statement fails
\* (err) or the value is stored.  Under a strict sql_mode, MySQL 8's default,
\* a text that is no number and a value out of range fail the statement
\* (errors 1366, 1264); otherwise 0 and the nearest bound are stored with a
\* warning.  Digits beyond the scale are rounded in both modes.
DecimalColumnOf(text, precision, scale, strict) ==
    IF ~IsNumeral(text)
    THEN [err |-> strict, amount |-> DecimalText(Rounded(Numeral(<< "0" >>), scale))]
    ELSE IF Len(Rounded(Numeral(text), scale).whole) > precision - scale
    THEN [ err |-> strict,
           amount |-> DecimalText([ neg |-> Head(text) = "-",
                                    whole |-> [i \in 1..(precision - scale) |-> "9"],
                                    fraction |-> [i \in 1..scale |-> "9"] ]) ]
    ELSE [err |-> FALSE, amount |-> DecimalText(Rounded(Numeral(text), scale))]

\* Variant: the column keeps three digits after the point.
DecimalColumnScale3(text, strict) == DecimalColumnOf(text, 12, 3, strict)

\* amount DECIMAL(12,2) NOT NULL
DecimalColumn(text, strict) == DecimalColumnOf(text, 12, 2, strict)

\* Variant: the table has no CHECK constraint.
NoCheckConstraint(amount) == TRUE

\* CONSTRAINT chk_ledger_amount_positive CHECK (amount > 0), on the stored
\* text.
chk_ledger_amount_positive(amount) ==
    /\ Head(amount) # "-"
    /\ \E i \in 1..Len(amount) : amount[i] \in Digits \ {"0"}

(***************************************************************************)
(* Creates and corrections with the amounts callers can send, on a store   *)
(* that applies the column type and the CHECK constraint.                  *)
(***************************************************************************)

AmountInputs ==
    { << "5" >>, << "5", ".", "1" >>, << " ", "5", ".", "1", "0" >>,
      << "0", ".", "0", "0" >>, << "-", "5", ".", "0", "0" >>, << "a", "b", "c" >>,
      << "5", ".", "0", "0", "1" >>, << "NaN" >>, << "Inf" >>,
      << "1", "5", "e", "-", "3" >>, << "1", "e", "-", "3" >>, << "1", "e", "2" >>,
      << "1", "e", "1", "0" >>, << "+", ".", "5" >> }

\* CreateDonation with one of the amounts, up to BeginTx.
CreateWithAmount(c) ==
    /\ pc[c] = "idle"
    /\ \E amount \in AmountInputs, rid \in { << "r1" >>, << "r2" >> } :
          LET in == DonationInput(1, << "Alice" >>, << "2024-02-01" >>, amount, rid)
          IN  IF validateDonation(in) # << >>
              THEN /\ \A d \in Calls : d < c => pc[d] # "idle"
                   /\ request' = [request EXCEPT ![c] =
                          Request(RequestIDOf(in), 1, LedgerEntryTypeDonation)]
                   /\ Return(c, Returned(0, FALSE, ErrValidation))
                   /\ UNCHANGED << ledger_entries, ledger_idempotency_keys,
                                   auto_increment, auth >>
              ELSE Enter(c, DonationEntry(in), RequestIDOf(in))

\* insertLedgerEntrySQL on the column: the statement fails on a text the
\* column turns down and on a value the CHECK constraint turns down, else
\* the row holds the converted amount.
InsertEntryDecimal(c) ==
    /\ pc[c] = "insertEntry"
    /\ \E strict \in BOOLEAN :
          LET column == DecimalColumn(input[c].Amount, strict)
          IN  IF column.err \/ ~chk_ledger_amount_positive(column.amount)
              THEN /\ Abort(c, ErrStorage)
                   /\ UNCHANGED << auto_increment, auth, request >>
              ELSE /\ txEntry' = [txEntry EXCEPT ![c] =
                          EntryRow([input[c] EXCEPT !.Amount = column.amount])]
                   /\ insertedID' = [insertedID EXCEPT ![c] = auto_increment]
                   /\ auto_increment' = auto_increment + 1
                   /\ UNCHANGED auth
                   /\ pc' = [pc EXCEPT ![c] = "backfill"]
                   /\ UNCHANGED << ledger_entries, ledger_idempotency_keys, input,
                                   request, txKey, existingID, result >>

\* The inputs of a correction: each amount for the live donation.
AmountUpdates == { [BaseUpdate EXCEPT !.Amount = amount] : amount \in AmountInputs }

UpdateWithAmount(c) == ServiceUpdateWith(c, AmountUpdates)

\* repo.UpdateEntry on the column.
UpdateEntryDecimal(c) ==
    /\ pc[c] = "updateEntry"
    /\ \E strict \in BOOLEAN :
          LET column == DecimalColumn(input[c].Amount, strict)
          IN  IF column.err \/ ~chk_ledger_amount_positive(column.amount)
              THEN /\ Return(c, UpdateReturned(ErrStorage, << >>))
                   /\ UNCHANGED ledger_entries
              ELSE /\ ledger_entries' =
                          UpdateEntry(ledger_entries,
                                      [input[c] EXCEPT !.Amount = column.amount])
                   /\ Return(c, UpdateReturned(NoError, << >>))
    /\ UNCHANGED << ledger_idempotency_keys, auto_increment, auth, request >>

NextAmounts ==
    \E c \in Calls :
        \/ CreateWithAmount(c)
        \/ ReserveKey(c)
        \/ ReserveDuplicate(c)
        \/ ReserveError(c)
        \/ FindExisting(c)
        \/ FindError(c)
        \/ CommitReplay(c)
        \/ ReplayCommitError(c)
        \/ InsertEntryDecimal(c)
        \/ InsertEntryError(c)
        \/ LastInsertIdError(c)
        \/ Backfill(c)
        \/ BackfillError(c)
        \/ Commit(c)
        \/ CommitError(c)
        \/ ContextCancelled(c)
        \/ UpdateWithAmount(c)
        \/ ServiceGetEntry(c)
        \/ UpdateEntryDecimal(c)
        \/ UpdateError(c)

SpecAmounts == InitUpdate /\ [][NextAmounts]_vars

(***************************************************************************)
(* C23: the amounts in the store.                                          *)
(***************************************************************************)

\* The text is digits, a point and at most two digits, not all of them 0:
\* a plain decimal numeral above zero with at most 2 fractional digits.
PositiveTwoDecimals(amount) ==
    LET parts == Split(amount, ".")
    IN  /\ Len(parts) \in {1, 2}
        /\ parts[1] # << >> /\ IsDigits(parts[1])
        /\ Len(parts) = 2 => IsDigits(parts[2]) /\ Len(parts[2]) \in 1..2
        /\ \E i \in 1..Len(amount) : amount[i] \in Digits \ {"0"}

\* C23: after any sequence of creates and corrections, every entry in the
\* store has an amount above zero with at most 2 fractional digits; no
\* accepted input stores a zero, negative, non-numeric or more finely
\* fractional amount.
C23_StoredAmounts ==
    \A id \in DOMAIN ledger_entries : PositiveTwoDecimals(ledger_entries[id].amount)

\* The input "15e-3", which ValidateAmount accepts, was stored: as 0.02.
C23_Witness ==
    \E id \in DOMAIN ledger_entries :
        /\ id >= 3
        /\ ledger_entries[id].amount = << "0", ".", "0", "2" >>

\* A correction stored an accepted input with one fractional digit less
\* than two: 5.1 as 5.10.
C23_WitnessUpdate ==
    /\ ledger_entries[1].amount = << "5", ".", "1", "0" >>
    /\ \E c \in Calls : IsUpdate(c) /\ Done(c) /\ result[c].err = NoError

\* C24: ValidateAmount accepts a text exactly when it is a plain decimal
\* numeral above zero with at most 2 fractional digits: a correction of the
\* live donation, whose other fields are valid, is turned down with a
\* message about the amount exactly when the trimmed amount is not such a
\* numeral.
C24_AcceptsExactlyPlainDecimals ==
    \A c \in Calls :
        (IsUpdate(c) /\ request[c].Input \in AmountUpdates) =>
            ( ( /\ Done(c)
                /\ result[c].err = ErrValidation
                /\ Head(result[c].text) = "amount" )
              <=> ~PositiveTwoDecimals(TrimSpace(request[c].Input.Amount)) )

(***************************************************************************)
(* occurred_at on its way into the store and the generated column          *)
(* month_key.  Times are counted in hours: an instant as the hours since   *)
(* 2024-01-01T00:00:00Z, a DATETIME, which has no zone, as the hours since *)
(* its own 2024-01-01 00:00:00.                                            *)
(***************************************************************************)

\* The instants of the time texts: 2024-01-31T20:00:00+08:00 is
\* 2024-01-31T12:00Z, the bare date 2024-02-01 is midnight at UTC+8, that
\* is 2024-01-31T16:00Z, 2024-01-31T18:00:00Z is itself, and the bare date
\* 2024-01-15 is 2024-01-14T16:00Z.
InstantHours ==
    (1 :> 30 * 24 + 12) @@ (2 :> 30 * 24 + 16) @@ (3 :> 30 * 24 + 18)
        @@ (4 :> 14 * 24 - 8)

\* time.Time.In(loc).Format("2006-01-02 15:04:05") for a zone at a fixed
\* offset: the wall clock of the instant there.
WallClock(t, offsetHours) == InstantHours[t] + offsetHours

\* Variant: the driver writes the time in UTC.
DriverDateTimeUTC(t) == WallClock(t, 0)

\* go-sql-driver/mysql with loc=Asia/Shanghai in the DSN: a time.Time
\* argument is sent as its wall clock in that zone, UTC+8 all year.
DriverDateTime(t) == WallClock(t, 8)

\* DATE_FORMAT(datetime, '%Y-%m') around the turn of January 2024, which
\* has 744 hours; February has 696.
DATE_FORMAT(datetime) ==
    IF datetime < 0 THEN << "2", "0", "2", "3", "-", "1", "2" >>
    ELSE IF datetime < 744 THEN << "2", "0", "2", "4", "-", "0", "1" >>
    ELSE IF datetime < 744 + 696 THEN << "2", "0", "2", "4", "-", "0", "2" >>
    ELSE << "2", "0", "2", "4", "-", "0", "3" >>

\* month_key CHAR(7) GENERATED ALWAYS AS
\* (DATE_FORMAT(occurred_at + INTERVAL 8 HOUR, '%Y-%m')) STORED
month_key(occurred_at) == DATE_FORMAT(occurred_at + 8)

\* The month_key of a row, whose occurred_at the model keeps as the instant
\* the service handed to the driver.
MonthKeyOf(row) == month_key(DriverDateTime(row.occurred_at))

OccurredTexts ==
    { << "2024-01-31T20:00:00+08:00" >>, << " ", "2024-01-31T18:00:00Z" >>,
      << "2024-02-01" >>, << "yesterday" >> }

\* CreateDonation with one of the time texts, up to BeginTx.
CreateAt(c) ==
    /\ pc[c] = "idle"
    /\ \E donatedAt \in OccurredTexts, rid \in { << "r1" >>, << "r2" >> } :
          LET in == DonationInput(1, << "Alice" >>, donatedAt,
                                  << "5", ".", "0", "0" >>, rid)
          IN  IF validateDonation(in) # << >>
              THEN /\ \A d \in Calls : d < c => pc[d] # "idle"
                   /\ request' = [request EXCEPT ![c] =
                          Request(RequestIDOf(in), 1, LedgerEntryTypeDonation)]
                   /\ Return(c, Returned(0, FALSE, ErrValidation))
                   /\ UNCHANGED << ledger_entries, ledger_idempotency_keys,
                                   auto_increment, auth >>
              ELSE Enter(c, DonationEntry(in), RequestIDOf(in))

\* The corrections of the two entries with each time text.
TimeUpdates ==
    { [BaseUpdate EXCEPT !.EntryID = id, !.DonatedAt = text, !.OccurredAt = text] :
          id \in {1, 2}, text \in OccurredTexts }

UpdateAt(c) == ServiceUpdateWith(c, TimeUpdates)

\* Both entries of the store were recorded with the bare date 2024-02-01.
InitMonthKey ==
    /\ ledger_entries =
          (1 :> [DonationToCorrect EXCEPT !.occurred_at = DateTimes["2024-02-01"]])
              @@ (2 :> ExpenseToCorrect)
    /\ ledger_idempotency_keys =
          ("r1" :> [KeyRow(LedgerEntryTypeDonation, 1) EXCEPT !.entry_id = 1])
    /\ auto_increment = 3
    /\ InitCalls

NextMonthKey ==
    \E c \in Calls :
        \/ CreateAt(c)
        \/ ReserveKey(c)
        \/ ReserveDuplicate(c)
        \/ ReserveError(c)
        \/ FindExisting(c)
        \/ FindError(c)
        \/ CommitReplay(c)
        \/ ReplayCommitError(c)
        \/ InsertEntry(c)
        \/ InsertEntryError(c)
        \/ LastInsertIdError(c)
        \/ Backfill(c)
        \/ BackfillError(c)
        \/ Commit(c)
        \/ CommitError(c)
        \/ ContextCancelled(c)
        \/ UpdateAt(c)
        \/ ServiceGetEntry(c)
        \/ UpdateEntryRow(c)
        \/ UpdateError(c)

SpecMonthKey == InitMonthKey /\ [][NextMonthKey]_vars

\* C25: for every stored entry, month_key is the YYYY-MM of its occurred_at
\* instant expressed at the fixed UTC+8 offset.
C25_MonthKeyAtUTC8 ==
    \A id \in DOMAIN ledger_entries :
        MonthKeyOf(ledger_entries[id])
            = DATE_FORMAT(WallClock(ledger_entries[id].occurred_at, 8))

(***************************************************************************)
(* LedgerQueryService.ListEntries with its filter and its pages, and the   *)
(* statements of repo.ListEntries and repo.CountEntries.                   *)
(***************************************************************************)

\* Go's int of the 64-bit builds, for the values hi * 2^60 + lo with a
\* small lo.  In the two's complement of 64 bits hi is taken modulo 16 and
\* the values with hi in 8..15 are the negative ones.
Int64(hi, lo) == [hi |-> hi, lo |-> lo]

\* Variant: the product in unbounded integers.
MulUnbounded(x, s) == Int64(x.hi * s, x.lo * s)

\* x * s as the machine computes it: modulo 2^64 = 16 * 2^60.
MulInt64(x, s) == Int64((x.hi * s) % 16, x.lo * s)

IsNegative(x) == x.hi >= 8 \/ (x.hi = 0 /\ x.lo < 0)

defaultPage == Int64(0, 1)
defaultPageSize == 20
maxPageSize == 100

ErrInvalidMonth == "ErrInvalidMonth"
ErrInvalidEntryType == "ErrInvalidEntryType"
ErrInvalidPage == "ErrInvalidPage"
ErrInvalidPageSize == "ErrInvalidPageSize"
ErrInvalidMonthFilter == "ErrInvalidMonthFilter"
ErrInvalidLedgerType == "ErrInvalidLedgerType"
ErrLimitOffset == "limit and offset must be >= 0"

\* Variant: the pattern ^\d{4}-\d{2}$, any two digits for the month.
MatchAnyTwoDigits(s) ==
    /\ Len(s) = 7
    /\ \A i \in {1, 2, 3, 4, 6, 7} : s[i] \in Digits
    /\ s[5] = "-"

\* regexp ^\d{4}-(0[1-9]|1[0-2])$, the monthPattern of the service and the
\* monthFilterPattern of the repository.
MatchMonthPattern(s) ==
    /\ Len(s) = 7
    /\ \A i \in 1..4 : s[i] \in Digits
    /\ s[5] = "-"
    /\ \/ s[6] = "0" /\ s[7] \in Digits \ {"0"}
       \/ s[6] = "1" /\ s[7] \in {"0", "1", "2"}

\* validateMonth: the pattern, then the two parts as numbers.
validateMonth(month) ==
    IF ~MatchMonthPattern(month) THEN ErrInvalidMonth
    ELSE IF Len(Split(month, "-")) # 2 THEN ErrInvalidMonth
    ELSE IF \E i \in 1..2 : ~IsDigits(Split(month, "-")[i]) \/ Split(month, "-")[i] = << >>
    THEN ErrInvalidMonth
    ELSE NoError

\* service.ListEntriesInput
ListEntriesInput(month, type, page, pageSize) ==
    [Month |-> month, Type |-> type, Page |-> page, PageSize |-> pageSize]

\* normalizeListEntriesInput: the error, or the normalized input.
normalizeListEntriesInput(in) ==
    LET normalized ==
            ListEntriesInput(TrimSpace(in.Month), TrimSpace(ToLower(in.Type)),
                IF in.Page = Int64(0, 0) THEN defaultPage ELSE in.Page,
                IF in.PageSize = 0 THEN defaultPageSize ELSE in.PageSize)
    IN  IF normalized.Month # << >> /\ validateMonth(normalized.Month) # NoError
        THEN [err |-> ErrInvalidMonth, in |-> normalized]
        ELSE IF normalized.Type \notin { << >>, << LedgerEntryTypeDonation >>,
                                         << LedgerEntryTypeExpense >> }
        THEN [err |-> ErrInvalidEntryType, in |-> normalized]
        ELSE IF IsNegative(normalized.Page) \/ normalized.Page = Int64(0, 0)
        THEN [err |-> ErrInvalidPage, in |-> normalized]
        ELSE IF normalized.PageSize < 1 \/ normalized.PageSize > maxPageSize
        THEN [err |-> ErrInvalidPageSize, in |-> normalized]
        ELSE [err |-> NoError, in |-> normalized]

\* repository.ListLedgerEntriesFilter
ListLedgerEntriesFilter(monthKey, type, limit, offset) ==
    [MonthKey |-> monthKey, Type |-> type, Limit |-> limit, Offset |-> offset]

\* Variant: the offset in unbounded integers.
filterOfUnbounded(normalized) ==
    ListLedgerEntriesFilter(normalized.Month, normalized.Type, normalized.PageSize,
        MulUnbounded(Int64(normalized.Page.hi, normalized.Page.lo - 1),
                     normalized.PageSize))

\* The filter ListEntries builds: Offset: (Page - 1) * PageSize.
filterOf(normalized) ==
    ListLedgerEntriesFilter(normalized.Month, normalized.Type, normalized.PageSize,
        MulInt64(Int64(normalized.Page.hi, normalized.Page.lo - 1),
                 normalized.PageSize))

\* ListLedgerEntriesFilter.Validate
Validate(f) ==
    IF f.MonthKey # << >> /\ ~MatchMonthPattern(TrimSpace(f.MonthKey))
    THEN ErrInvalidMonthFilter
    ELSE IF f.Type \notin { << >>, << LedgerEntryTypeDonation >>,
                            << LedgerEntryTypeExpense >> }
    THEN ErrInvalidLedgerType
    ELSE IF f.Limit < 0 \/ IsNegative(f.Offset) THEN ErrLimitOffset
    ELSE NoError

\* Variant: the clause does not exclude the deleted rows.
ledgerFilterWithDeleted(entries, f) ==
    { id \in DOMAIN entries :
        /\ f.MonthKey # << >> => entries[id].month_key = f.MonthKey
        /\ f.Type # << >> => entries[id].entry_type = f.Type[1] }

\* buildLedgerFilterClause with its arguments: " WHERE deleted_at IS NULL",
\* " AND month_key = ?" for a month, " AND entry_type = ?" for a type.
ledgerFilter(entries, f) ==
    { id \in DOMAIN entries :
        /\ entries[id].deleted_at = NULL
        /\ f.MonthKey # << >> => entries[id].month_key = f.MonthKey
        /\ f.Type # << >> => entries[id].entry_type = f.Type[1] }

\* Row a comes before row b under ORDER BY created_at DESC, id DESC.
Before(entries, a, b) ==
    \/ entries[a].created_at > entries[b].created_at
    \/ entries[a].created_at = entries[b].created_at /\ a > b

\* Variant: ORDER BY created_at DESC alone; rows of one timestamp come in
\* the order of the primary key.
OrderByCreatedOnly(entries, ids) ==
    [ i \in 1..Cardinality(ids) |->
        CHOOSE a \in ids :
            Cardinality({ b \in ids :
                \/ entries[b].created_at > entries[a].created_at
                \/ entries[b].created_at = entries[a].created_at /\ b < a }) = i - 1 ]

\* The rows in the order of ORDER BY created_at DESC, id DESC.
OrderBy(entries, ids) ==
    [ i \in 1..Cardinality(ids) |->
        CHOOSE a \in ids :
            Cardinality({ b \in ids : Before(entries, b, a) }) = i - 1 ]

\* LIMIT ? OFFSET ? on the ordered rows.
LimitOffset(rows, limit, offset) ==
    IF offset.hi > 0 \/ offset.lo >= Len(rows) THEN << >>
    ELSE SubSeq(rows, offset.lo + 1,
                IF offset.lo + limit < Len(rows) THEN offset.lo + limit ELSE Len(rows))

\* listLedgerEntriesBaseSQL + where + order + limit: the ids of the items.
listEntriesSQL(entries, f) ==
    LimitOffset(OrderBy(entries, ledgerFilter(entries, f)), f.Limit, f.Offset)

\* SELECT COUNT(1) FROM ledger_entries + where
countEntriesSQL(entries, f) == Cardinality(ledgerFilter(entries, f))

\* int((total + int64(PageSize) - 1) / int64(PageSize))
totalPages(total, pageSize) == (total + pageSize - 1) \div pageSize

\* ListEntriesResult and the error.
ListEntriesResult(items, page, pageSize, total, pages, err) ==
    [ items |-> items, page |-> page, page_size |-> pageSize, total |-> total,
      total_pages |-> pages, err |-> err ]

\* The call of ListEntries as the properties see it.
ListEntriesRequest(in) == [List |-> in]

\* A row of the store with the columns the listing reads: created_at and
\* the generated month_key.
ListedRow(type, occurredAt, createdAt) ==
    EntryRow([ UserID |-> 1, EntryType |-> type, Amount |-> << "5", ".", "0", "0" >>,
               OccurredAt |-> occurredAt, Description |-> << >> ])
        @@ [ created_at |-> createdAt,
             month_key |-> month_key(DriverDateTime(occurredAt)) ]

\* The store that is listed: two entries of January and four of February
\* 2024, pairs of them created within the same second, entry 4 deleted.
ListedEntries ==
    (1 :> ListedRow(LedgerEntryTypeDonation, DateTimes["2024-01-15"], 1))
        @@ (2 :> ListedRow(LedgerEntryTypeExpense, DateTimes["2024-02-01"], 1))
        @@ (3 :> ListedRow(LedgerEntryTypeDonation, DateTimes["2024-02-01"], 2))
        @@ (4 :> [ListedRow(LedgerEntryTypeDonation, DateTimes["2024-02-01"], 2)
                     EXCEPT !.deleted_at = 1, !.deleted_by = 2])
        @@ (5 :> ListedRow(LedgerEntryTypeExpense, DateTimes["2024-02-01"], 3))
        @@ (6 :> ListedRow(LedgerEntryTypeExpense, DateTimes["2024-01-15"], 3))

MonthTexts ==
    { << >>, << "2", "0", "2", "4", "-", "0", "2" >>,
      << " ", "2", "0", "2", "4", "-", "0", "1", " " >>,
      << "2", "0", "2", "4", "-", "1", "3" >>, << "2", "0", "2", "4", "-", "2" >> }

TypeTexts == { << >>, << "Donation" >>, << " ", "expense" >>, << "gift" >> }

\* Pages: none, 1 to 4, -1, 2^60 + 1 and 2^62 + 1.
Pages ==
    { Int64(0, 0), Int64(0, 1), Int64(0, 2), Int64(0, 3), Int64(0, 4), Int64(0, -1),
      Int64(1, 1), Int64(4, 1) }

PageSizes == {0, 2, 3, 20, 100, 101, -1}

ListInputs ==
    { ListEntriesInput(month, type, Int64(0, 0), 0) :
          month \in MonthTexts, type \in TypeTexts }
        \cup { ListEntriesInput(<< >>, << >>, page, pageSize) :
                  page \in Pages, pageSize \in PageSizes }
        \cup { ListEntriesInput(<< "2", "0", "2", "4", "-", "0", "2" >>, << >>, page, 2) :
                  page \in { Int64(0, 1), Int64(0, 2) } }

\* The filter of the call, once its input was found valid.
FilterOfCall(c) == filterOf(normalizeListEntriesInput(request[c].List).in)

\* ListEntries is called: the input is normalized and the filter validated.
ServiceListEntries(c) ==
    /\ pc[c] = "idle"
    /\ \A d \in Calls : d < c => pc[d] # "idle"
    /\ \E in \in ListInputs :
          LET normalized == normalizeListEntriesInput(in)
          IN  /\ request' = [request EXCEPT ![c] = ListEntriesRequest(in)]
              /\ IF normalized.err # NoError
                 THEN Return(c, ListEntriesResult(<< >>, 0, 0, 0, 0, normalized.err))
                 ELSE IF Validate(filterOf(normalized.in)) # NoError
                 THEN Return(c, ListEntriesResult(<< >>, 0, 0, 0, 0,
                                    Validate(filterOf(normalized.in))))
                 ELSE /\ pc' = [pc EXCEPT ![c] = "listEntries"]
                      /\ UNCHANGED << input, txKey, txEntry, insertedID, existingID,
                                      result >>
    /\ UNCHANGED << ledger_entries, ledger_idempotency_keys, auto_increment, auth >>

\* repo.ListEntries: the statement reads the page.
RepoListEntries(c) ==
    /\ pc[c] = "listEntries"
    /\ "List" \in DOMAIN request[c]
    /\ result' = [result EXCEPT ![c] =
          ListEntriesResult(listEntriesSQL(ledger_entries, FilterOfCall(c)),
                            0, 0, 0, 0, NoError)]
    /\ pc' = [pc EXCEPT ![c] = "countEntries"]
    /\ UNCHANGED << ledger_entries, ledger_idempotency_keys, auto_increment, auth, input,
                    request, txKey, txEntry, insertedID, existingID >>

\* repo.CountEntries: the statement counts, and ListEntries returns.
RepoCountEntries(c) ==
    /\ pc[c] = "countEntries"
    /\ "List" \in DOMAIN request[c]
    /\ LET normalized == normalizeListEntriesInput(request[c].List).in
           total == countEntriesSQL(ledger_entries, FilterOfCall(c))
       IN  Return(c, ListEntriesResult(result[c].items, normalized.Page,
                         normalized.PageSize, total,
                         totalPages(total, normalized.PageSize), NoError))
    /\ UNCHANGED << ledger_entries, ledger_idempotency_keys, auto_increment, auth, request >>

InitListing ==
    /\ ledger_entries = ListedEntries
    /\ ledger_idempotency_keys = EmptyTable
    /\ auto_increment = 7
    /\ InitCalls

\* Listings and soft deletions, running concurrently.
NextListing ==
    \E c \in Calls :
        \/ ServiceListEntries(c)
        \/ RepoListEntries(c)
        \/ RepoCountEntries(c)
        \/ ReadError(c)
        \/ SoftDeleteEntry(c)
        \/ CheckDeleted(c)
        \/ CheckDeletedError(c)
        \/ SoftDelete(c)
        \/ SoftDeleteError(c)
        \/ RowsAffectedError(c)

SpecListing == InitListing /\ [][NextListing]_vars

\* The call is a call of ListEntries with its filter and pages.
IsListing(c) == Started(c) /\ "List" \in DOMAIN request[c]

(***************************************************************************)
(* C26: what a listing returns.                                            *)
(***************************************************************************)

\* Entry id is not deleted and matches the month and the type asked for.
MatchesListing(entries, id, in) ==
    /\ entries[id].deleted_at = NULL
    /\ TrimSpace(in.Month) # << >> => entries[id].month_key = TrimSpace(in.Month)
    /\ TrimSpace(in.Type) # << >> =>
          << entries[id].entry_type >> = TrimSpace(ToLower(in.Type))

C26_Step ==
    \A c \in Calls :
        /\ (pc[c] = "listEntries" /\ pc'[c] = "countEntries") =>
              LET items == result'[c].items
              IN  /\ \A i \in 1..Len(items) :
                        /\ items[i] \in DOMAIN ledger_entries
                        /\ MatchesListing(ledger_entries, items[i], request[c].List)
                  /\ \A i, j \in 1..Len(items) :
                        i < j =>
                            LET a == ledger_entries[items[i]]
                                b == ledger_entries[items[j]]
                            IN  \/ a.created_at > b.created_at
                                \/ a.created_at = b.created_at /\ items[i] > items[j]
        /\ (pc[c] = "countEntries" /\ Done(c)' /\ result'[c].err = NoError) =>
              result'[c].total =
                  Cardinality({ id \in DOMAIN ledger_entries :
                      MatchesListing(ledger_entries, id, request[c].List) })

\* C26: a listing returns only entries whose deleted_at is unset and that
\* match the month and type filters, ordered by created_at descending then
\* id descending, and the count counts exactly these: an entry whose soft
\* deletion has committed is in no listing and no count performed later.
C26_ListingFilterOrder == [][C26_Step]_vars

\* A listing without filters, made after the soft deletion of entry 1 by
\* another call committed: entry 1 is not in it, and the entries created in
\* the same second come by id.
C26_Witness ==
    \E c \in Calls :
        /\ IsListing(c) /\ Done(c) /\ result[c].err = NoError
        /\ ledger_entries[1].deleted_at # NULL
        /\ result[c].items = << 6, 5, 3, 2 >>
        /\ result[c].total = 4

(***************************************************************************)
(* C27: the pages of a listing.                                            *)
(***************************************************************************)

\* The entries a listing with input `in` matches, in the order of the list.
OrderedMatches(entries, in) ==
    OrderBy(entries, { id \in DOMAIN entries : MatchesListing(entries, id, in) })

\* The positions (p - 1) * S + 1 .. min(p * S, T) of the ordered list; no
\* position for a page beyond the last.
PageOf(rows, page, pageSize) ==
    IF page.hi > 0 \/ (page.lo - 1) * pageSize >= Len(rows) THEN << >>
    ELSE SubSeq(rows, (page.lo - 1) * pageSize + 1,
                IF page.lo * pageSize < Len(rows) THEN page.lo * pageSize
                ELSE Len(rows))

C27_Step ==
    \A c \in Calls :
        /\ (pc[c] = "listEntries" /\ pc'[c] = "countEntries") =>
              LET in == normalizeListEntriesInput(request[c].List).in
              IN  result'[c].items =
                      PageOf(OrderedMatches(ledger_entries, request[c].List),
                             in.Page, in.PageSize)
        /\ (pc[c] = "countEntries" /\ Done(c)' /\ result'[c].err = NoError) =>
              LET size == result'[c].page_size
                  total == Len(OrderedMatches(ledger_entries, request[c].List))
              IN  /\ size \in 1..100
                  /\ result'[c].total = total
                  /\ result'[c].total_pages * size >= total
                  /\ (result'[c].total_pages - 1) * size < total \/ total = 0
                  /\ total = 0 => result'[c].total_pages = 0
        /\ totalPages(45, 20) = 3 /\ 45 - (3 - 1) * 20 = 5

\* C27: with T matching live entries and page size S in 1..100, ListEntries
\* reports total = T and total_pages = ceil(T / S), and page p holds the
\* entries at positions (p-1)*S+1 .. min(p*S, T) of the ordered list (45
\* rows, S = 20: 3 pages, the last with 5).
C27_Pagination == [][C27_Step]_vars

(***************************************************************************)
(* GET /api/summary: handleSummary, LedgerQueryService.GetMonthlySummary   *)
(* and the statement of the repository, with amounts summed in cents.      *)
(***************************************************************************)

\* The value of a stored amount, digits "." two digits, in cents.
CentsOf(amount) ==
    NatOf(Split(amount, ".")[1]) * 100 + NatOf(Split(amount, ".")[2])

\* SUM(expr) over the rows `ids`.
RECURSIVE SumCents(_, _)
SumCents(entries, ids) ==
    IF ids = {} THEN 0
    ELSE LET id == CHOOSE x \in ids : TRUE
         IN  CentsOf(entries[id].amount) + SumCents(entries, ids \ {id})

\* repository.MonthlySummary, in cents.
MonthlySummary(donations, expenses, balance) ==
    [donation_total |-> donations, expense_total |-> expenses, balance |-> balance]

\* Variant: the statement lacks "AND deleted_at IS NULL".
summaryRowsWithDeleted(entries, monthKey) ==
    { id \in DOMAIN entries : entries[id].month_key = monthKey }

\* WHERE month_key = ? AND deleted_at IS NULL
summaryRows(entries, monthKey) ==
    { id \in DOMAIN entries :
        entries[id].month_key = monthKey /\ entries[id].deleted_at = NULL }

\* summarySQL of GetMonthlySummary: the three COALESCE(SUM(CASE ...), 0).
monthlySummarySQL(entries, monthKey) ==
    LET rows == summaryRows(entries, monthKey)
        donations == { id \in rows : entries[id].entry_type = LedgerEntryTypeDonation }
        others == rows \ donations
        expenses == { id \in rows : entries[id].entry_type = LedgerEntryTypeExpense }
    IN  MonthlySummary(SumCents(entries, donations), SumCents(entries, expenses),
                       SumCents(entries, donations) - SumCents(entries, others))

\* What is kept of a summary request: the month of the query and the role
\* of the token, "" when withAuth turned the request down.
SummaryMonthRequest(month, role) == [Summary |-> month, Role |-> role]

\* The store that is summed: the listed entries with their amounts.
SummedEntries ==
    [ id \in DOMAIN ListedEntries |->
        [ListedEntries[id] EXCEPT !.amount =
            CASE id = 1 -> << "1", "0", "0", ".", "0", "0" >>
              [] id = 2 -> << "7", ".", "5", "0" >>
              [] id = 5 -> << "2", "0", ".", "2", "5" >>
              [] OTHER -> << "5", ".", "0", "0" >>] ]

\* January, February, March and no month of 2024, and a thirteenth month.
SummaryMonths ==
    { << >>, << " ", "2", "0", "2", "4", "-", "0", "1", " " >>,
      << "2", "0", "2", "4", "-", "0", "2" >>, << "2", "0", "2", "4", "-", "0", "3" >>,
      << "2", "0", "2", "4", "-", "1", "3" >> }

\* handleSummary behind withAuth, up to the call of the repository: the
\* month is trimmed by the handler and by the service, then validated.
SummaryMonthRoute(c) ==
    /\ pc[c] = "idle"
    /\ \A d \in Calls : d < c => pc[d] # "idle"
    /\ \E token \in Tokens, month \in SummaryMonths :
          /\ request' = [request EXCEPT ![c] = SummaryMonthRequest(month, RoleOf(token))]
          /\ IF withAuth(token).resp.status # 0
             THEN /\ pc' = [pc EXCEPT ![c] = "responded"]
                  /\ result' = [result EXCEPT ![c] = withAuth(token).resp]
             ELSE IF validateMonth(TrimSpace(TrimSpace(month))) # NoError
             THEN /\ pc' = [pc EXCEPT ![c] = "responded"]
                  /\ result' = [result EXCEPT ![c] =
                        Response(400, << "invalid", "month" >>, 0)]
             ELSE /\ pc' = [pc EXCEPT ![c] = "summary"]
                  /\ UNCHANGED result
    /\ UNCHANGED << ledger_entries, ledger_idempotency_keys, auto_increment, auth, input,
                    txKey, txEntry, insertedID, existingID >>

\* repo.GetMonthlySummary: the month is trimmed and matched once more, the
\* statement sums, and the handler writes 200 with the summary.
RepoGetMonthlySummary(c) ==
    /\ pc[c] = "summary"
    /\ LET monthKey == TrimSpace(TrimSpace(request[c].Summary))
       IN  result' = [result EXCEPT ![c] =
               IF monthKey = << >> \/ ~MatchMonthPattern(monthKey)
               THEN Response(500, << "failed", "to", "fetch", "summary" >>, 0)
               ELSE monthlySummarySQL(ledger_entries, monthKey)
                        @@ Response(200, << >>, 0)]
    /\ pc' = [pc EXCEPT ![c] = "responded"]
    /\ UNCHANGED << ledger_entries, ledger_idempotency_keys, auto_increment, auth, input,
                    request, txKey, txEntry, insertedID, existingID >>

\* The statement fails: 500.
SummaryFails(c) ==
    /\ pc[c] = "summary"
    /\ result' = [result EXCEPT ![c] =
          Response(500, << "failed", "to", "fetch", "summary" >>, 0)]
    /\ pc' = [pc EXCEPT ![c] = "responded"]
    /\ UNCHANGED << ledger_entries, ledger_idempotency_keys, auto_increment, auth, input,
                    request, txKey, txEntry, insertedID, existingID >>

InitSummary ==
    /\ ledger_entries = SummedEntries
    /\ ledger_idempotency_keys = EmptyTable
    /\ auto_increment = 7
    /\ InitCalls

\* Summaries and soft deletions, running concurrently.
NextSummary ==
    \E c \in Calls :
        \/ SummaryMonthRoute(c)
        \/ RepoGetMonthlySummary(c)
        \/ SummaryFails(c)
        \/ SoftDeleteEntry(c)
        \/ CheckDeleted(c)
        \/ CheckDeletedError(c)
        \/ SoftDelete(c)
        \/ SoftDeleteError(c)
        \/ RowsAffectedError(c)

SpecSummary == InitSummary /\ [][NextSummary]_vars

\* The call is a summary request.
IsSummary(c) == Started(c) /\ "Summary" \in DOMAIN request[c]

(***************************************************************************)
(* C28 and C29: the monthly summary and the validity of a month.           *)
(***************************************************************************)

\* The text is YYYY-MM: four digits, a dash, and a month from 01 to 12.
IsYearMonth(m) ==
    /\ Len(m) = 7
    /\ IsDigits(SubSeq(m, 1, 4)) /\ m[5] = "-" /\ IsDigits(SubSeq(m, 6, 7))
    /\ NatOf(SubSeq(m, 6, 7)) \in 1..12

\* The sum, in cents, of the amounts of the entries of a type and a month
\* that are not deleted.
LiveTotal(entries, type, m) ==
    SumCents(entries, { id \in DOMAIN entries :
        /\ entries[id].entry_type = type
        /\ entries[id].month_key = m
        /\ entries[id].deleted_at = NULL })

C28_Step ==
    \A c \in Calls :
        /\ (pc[c] = "summary" /\ Responded(c)') =>
              LET m == TrimSpace(request[c].Summary)
              IN  /\ IsYearMonth(m)
                  /\ result'[c].status \in {200, 500}
                  /\ result'[c].status = 200 =>
                        /\ result'[c].donation_total =
                              LiveTotal(ledger_entries, LedgerEntryTypeDonation, m)
                        /\ result'[c].expense_total =
                              LiveTotal(ledger_entries, LedgerEntryTypeExpense, m)
                        /\ result'[c].balance =
                              result'[c].donation_total - result'[c].expense_total
                        /\ (\A id \in DOMAIN ledger_entries :
                                ledger_entries[id].month_key # m) =>
                              /\ result'[c].donation_total = 0
                              /\ result'[c].expense_total = 0
                              /\ result'[c].balance = 0
        /\ (pc[c] = "idle" /\ IsSummary(c)' /\ request'[c].Role # "") =>
              IF IsYearMonth(TrimSpace(request'[c].Summary))
              THEN pc'[c] = "summary"
              ELSE Responded(c)' /\ result'[c].status = 400

\* C28: for a valid month m, donation_total is the sum of the amounts of
\* the non-deleted donations with month_key m, expense_total the same for
\* expenses and balance their difference; soft-deleted entries contribute
\* to none of the three, a month without entries yields zero for all
\* three, and an invalid month is answered 400.
C28_MonthlySummary == [][C28_Step]_vars

\* February 2024 was summed after the soft deletion of donation 3
\* committed: no donation is left, the expenses are 27.75, the balance is
\* -27.75.
C28_Witness ==
    \E c \in Calls :
        /\ IsSummary(c) /\ Responded(c) /\ result[c].status = 200
        /\ ledger_entries[3].deleted_at # NULL
        /\ result[c].donation_total = 0
        /\ result[c].expense_total = 2775
        /\ result[c].balance = 0 - 2775

\* March 2024, which has no entry, was summed: three zeros.
C28_WitnessEmptyMonth ==
    \E c \in Calls :
        /\ IsSummary(c) /\ Responded(c) /\ result[c].status = 200
        /\ request[c].Summary = << "2", "0", "2", "4", "-", "0", "3" >>
        /\ result[c].balance = 0

(***************************************************************************)
(* The two checks of a month, applied to the same text: validateMonth of   *)
(* the service and Validate of the repository's filter.                    *)
(***************************************************************************)

MonthStrings ==
    { << "2", "0", "2", "4", "-", "0", "1" >>, << "2", "0", "2", "4", "-", "0", "9" >>,
      << "2", "0", "2", "4", "-", "1", "0" >>, << "2", "0", "2", "4", "-", "1", "2" >>,
      << "2", "0", "2", "4", "-", "1", "3" >>, << "2", "0", "2", "4", "-", "0", "0" >>,
      << "2", "4", "-", "0", "1" >>, << "2", "0", "2", "4", "-", "1" >>,
      << "2", "0", "2", "4", "/", "0", "1" >>, << "2", "0", "2", "4", "-", "0", "1", "0" >>,
      << "a", "b", "c", "d", "-", "0", "1" >>, << "2", "0", "2", "4", "0", "1" >>,
      << >>, << " " >>, << " ", "2", "0", "2", "4", "-", "0", "1" >>,
      << "2", "0", "2", "4", "-", "0", "1", " " >> }

\* What is kept of the call: the text checked.
MonthRequest(month) == [MonthText |-> month]

\* The errors of the two checks.
MonthChecked(service, filter) == [service |-> service, filter |-> filter]

\* validateMonth is applied to a text.
ServiceValidatesMonth(c) ==
    /\ pc[c] = "idle"
    /\ \A d \in Calls : d < c => pc[d] # "idle"
    /\ \E month \in MonthStrings :
          /\ request' = [request EXCEPT ![c] = MonthRequest(month)]
          /\ result' = [result EXCEPT ![c] = MonthChecked(validateMonth(month), NoError)]
    /\ pc' = [pc EXCEPT ![c] = "validateFilter"]
    /\ UNCHANGED << ledger_entries, ledger_idempotency_keys, auto_increment, auth, input,
                    txKey, txEntry, insertedID, existingID >>

\* Validate is applied to a filter with the same text as MonthKey, no type
\* and the first page.
FilterValidatesMonth(c) ==
    /\ pc[c] = "validateFilter"
    /\ Return(c, MonthChecked(result[c].service,
          Validate(ListLedgerEntriesFilter(request[c].MonthText, << >>,
                                           defaultPageSize, Int64(0, 0)))))
    /\ UNCHANGED << ledger_entries, ledger_idempotency_keys, auto_increment, auth, request >>

NextMonth ==
    \E c \in Calls : ServiceValidatesMonth(c) \/ FilterValidatesMonth(c)

SpecMonth == InitListing /\ [][NextMonth]_vars

\* The call has applied both checks to its text.
MonthCheckedBoth(c) == Done(c) /\ "MonthText" \in DOMAIN request[c]

\* C29 (amended): validateMonth accepts a text exactly when it is YYYY-MM
\* with four digits and a month from 01 to 12; the filter's Validate
\* accepts a text exactly when it is empty (no month filter) or is such a
\* month once the white space around it is removed.  The two agree on every
\* text that is not empty and has no white space around it; "2024-13",
\* "2024-00" and "24-01" are rejected and "2024-01" is accepted by both.
C29_MonthValidity ==
    \A c \in Calls :
        MonthCheckedBoth(c) =>
            LET m == request[c].MonthText
            IN  /\ result[c].service = NoError <=> IsYearMonth(m)
                /\ result[c].filter = NoError <=> (m = << >> \/ IsYearMonth(TrimSpace(m)))
                /\ (m # << >> /\ TrimSpace(m) = m) =>
                      (result[c].service = NoError <=> result[c].filter = NoError)

\* C29 as stated: both checks accept a text exactly when it is YYYY-MM with
\* four digits and a month from 01 to 12.
C29_IdenticalValidity ==
    \A c \in Calls :
        MonthCheckedBoth(c) =>
            /\ result[c].service = NoError <=> IsYearMonth(request[c].MonthText)
            /\ result[c].filter = NoError <=> IsYearMonth(request[c].MonthText)

\* "2024-13" was turned down by both checks, and "2024-01" accepted by
\* both, in one run.
C29_Witness ==
    \E c, d \in Calls :
        /\ MonthCheckedBoth(c) /\ MonthCheckedBoth(d)
        /\ request[c].MonthText = << "2", "0", "2", "4", "-", "1", "3" >>
        /\ result[c].service # NoError /\ result[c].filter # NoError
        /\ request[d].MonthText = << "2", "0", "2", "4", "-", "0", "1" >>
        /\ result[d].service = NoError /\ result[d].filter = NoError

(***************************************************************************)
(* C30: no retry inside CreateEntryWithRequestID, and termination.         *)
(***************************************************************************)

\* The steps of call c that no error forces: each statement succeeds, or
\* the reservation is answered "duplicate" and the existing row is judged.
Progress(c) ==
    \/ ReserveKey(c)
    \/ ReserveDuplicate(c)
    \/ FindExisting(c)
    \/ CommitReplay(c)
    \/ InsertEntry(c)
    \/ Backfill(c)
    \/ Commit(c)

\* Every call whose next statement can be executed executes it or fails:
\* each call runs in the goroutine of its request, and the server grants a
\* waiting insert its lock once the holder's transaction has ended.
\* Failures are possible at every statement, none is assumed to happen.
SpecLive == Init /\ [][Next]_vars /\ \A c \in Calls : WF_vars(Progress(c))

\* How far a call has come: the statements in the order of the code.
Rank(at) ==
    CASE at = "idle" -> 0
      [] at = "reserve" -> 1
      [] at = "find" -> 2
      [] at = "commitReplay" -> 3
      [] at = "insertEntry" -> 2
      [] at = "backfill" -> 3
      [] at = "commit" -> 4
      [] at = "done" -> 5

\* A step that touches the transaction of call c moves the call on to a
\* later statement: no statement is attempted a second time.
C30_Step ==
    \A c \in Calls :
        /\ (<< txKey[c], txEntry[c], insertedID[c], existingID[c], result[c] >>'
                # << txKey[c], txEntry[c], insertedID[c], existingID[c], result[c] >>)
              => pc'[c] # pc[c]
        /\ pc'[c] # pc[c] => Rank(pc'[c]) > Rank(pc[c])

\* No transaction of call c is open: it was committed or rolled back.
TransactionEnded(c) == Done(c) /\ txKey[c] = NoRow /\ txEntry[c] = NoRow

\* C30: a call of CreateEntryWithRequestID attempts the reservation insert,
\* the entry insert and the backfill update at most once each, and, every
\* call being scheduled, it eventually ends in a commit or a rollback.
C30_NoRetryAndTermination ==
    /\ [][C30_Step]_vars
    /\ \A c \in Calls : Started(c) ~> TransactionEnded(c)

\* Two calls made with the same request id have both ended, each having
\* gone through its statements once: the first with its entry, the second
\* as a replay of it.
C30_Witness ==
    \E c, d \in Calls :
        /\ c # d
        /\ TransactionEnded(c) /\ TransactionEnded(d)
        /\ request[c].RequestID = request[d].RequestID
        /\ result[c].err = NoError /\ ~result[c].wasReplayed
        /\ result[d].err = NoError /\ result[d].wasReplayed

(***************************************************************************)
(* C31. In every committed state each idempotency record whose entry_id is *)
(* set references an existing ledger entry, and that entry has the         *)
(* record's operation as its entry_type and the record's created_by as     *)
(* its user_id: whatever creates, replays, corrections, deletions and      *)
(* reads have run.                                                         *)
(***************************************************************************)
C31_RecordMatchesEntry ==
    \A rid \in DOMAIN ledger_idempotency_keys :
        LET record == ledger_idempotency_keys[rid]
        IN  record.entry_id # NULL
              => /\ record.entry_id \in DOMAIN ledger_entries
                 /\ ledger_entries[record.entry_id].entry_type = record.operation
                 /\ ledger_entries[record.entry_id].user_id = record.created_by

\* A create call of user 2 committed an expense under "r2": its record
\* points at the new entry 3, next to the record of "r1"; since then entry 3
\* was corrected and soft-deleted.
C31_Witness ==
    /\ \E c \in Calls : IsCreate(c) /\ Created(c) /\ result[c].entryID = 3
    /\ "r2" \in DOMAIN ledger_idempotency_keys
    /\ ledger_idempotency_keys["r2"].entry_id = 3
    /\ ledger_idempotency_keys["r2"].operation = LedgerEntryTypeExpense
    /\ ledger_idempotency_keys["r2"].created_by = 2
    /\ ledger_idempotency_keys["r1"].entry_id = 1
    /\ ledger_entries[3].deleted_at # NULL

\* The same, the new entry still live and entry 1 corrected by an update.
C31_WitnessUpdated ==
    /\ "r2" \in DOMAIN ledger_idempotency_keys
    /\ ledger_idempotency_keys["r2"].entry_id = 3
    /\ \E c \in Calls : IsUpdate(c) /\ Succeeded(c) /\ request[c].UpdateID = 1
    /\ ledger_entries[1].amount # InitialEntries[1].amount

(***************************************************************************)
(* C32. Starting from the empty schema, every committed idempotency record *)
(* has entry_id set: a record becomes visible only in the commit of the    *)
(* transaction that reserved it, after its backfill, and together with     *)
(* the ledger entry it points at; no error return leaves a record behind.  *)
(***************************************************************************)
C32_AllBackfilled ==
    \A rid \in DOMAIN ledger_idempotency_keys :
        ledger_idempotency_keys[rid].entry_id # NULL

C32_Step ==
    \A rid \in DOMAIN ledger_idempotency_keys' \ DOMAIN ledger_idempotency_keys :
        /\ ledger_idempotency_keys'[rid].entry_id # NULL
        /\ ledger_idempotency_keys'[rid].entry_id
              \in DOMAIN ledger_entries' \ DOMAIN ledger_entries
        /\ \E c \in Calls : /\ pc[c] = "commit" /\ Returns(c)
                            /\ request[c].RequestID = rid
                            /\ result'[c].entryID = ledger_idempotency_keys'[rid].entry_id

C32_ReservationAndBackfillCommitTogether == []C32_AllBackfilled /\ [][C32_Step]_vars

\* One call committed its record with entry_id set, and another call failed
\* after it had reserved its key and inserted its entry: it left no record.
C32_Witness ==
    \E c, d \in Calls :
        /\ Created(c)
        /\ ledger_idempotency_keys[request[c].RequestID].entry_id = result[c].entryID
        /\ Failed(d)
        /\ request[d].RequestID # request[c].RequestID
        /\ request[d].RequestID \notin DOMAIN ledger_idempotency_keys
        /\ auto_increment = 3

(***************************************************************************)
(* C33. No two request ids ever reference the same ledger entry: in every  *)
(* reachable state the committed records with entry_id set have pairwise   *)
(* different entry ids, and a record that a transaction has backfilled but *)
(* not yet committed references an entry that no committed record and no   *)
(* other open transaction references.                                      *)
(***************************************************************************)
C33_InjectiveEntryIDs ==
    /\ \A r, s \in DOMAIN ledger_idempotency_keys :
          /\ r # s
          /\ ledger_idempotency_keys[r].entry_id # NULL
          => ledger_idempotency_keys[r].entry_id # ledger_idempotency_keys[s].entry_id
    /\ \A c \in Calls :
          txKey[c] # NoRow /\ txKey[c].entry_id # NULL
              => /\ \A r \in DOMAIN ledger_idempotency_keys :
                       ledger_idempotency_keys[r].entry_id # txKey[c].entry_id
                 /\ \A d \in Calls \ {c} :
                       txKey[d] # NoRow => txKey[d].entry_id # txKey[c].entry_id

\* Two calls with different request ids ran their inserts side by side: one
\* has committed its record, the other is about to commit a record that
\* references the other entry.
C33_Witness ==
    \E c, d \in Calls :
        /\ Created(c)
        /\ pc[d] = "commit"
        /\ request[c].RequestID # request[d].RequestID
        /\ ledger_idempotency_keys[request[c].RequestID].entry_id = 2
        /\ txKey[d].entry_id = 1

\* Both records are committed and reference entries 1 and 2.
C33_WitnessCommitted ==
    /\ DOMAIN ledger_idempotency_keys = RequestIDs
    /\ { ledger_idempotency_keys[r].entry_id : r \in RequestIDs } = {1, 2}
    /\ DOMAIN ledger_entries = {1, 2}

(***************************************************************************)
(* C34. Replay after soft deletion.  In SpecLedger the store starts with   *)
(* the record of "r1", written for the donation of user 1 that is entry 1. *)
(* Once entry 1 is soft-deleted, a create call made with "r1" for a        *)
(* donation of user 1 returns (1, wasReplayed = true) unless the store     *)
(* fails it, and no step of such a call adds an entry, changes one or      *)
(* clears the deleted_at of entry 1.                                       *)
(***************************************************************************)
ReplaysEntryOne(c) ==
    /\ IsCreate(c)
    /\ request[c] = Request("r1", 1, LedgerEntryTypeDonation)

C34_Step ==
    \A c \in Calls :
        /\ ReplaysEntryOne(c)
        /\ pc'[c] # pc[c]
        /\ ledger_entries[1].deleted_at # NULL
        => /\ ledger_entries' = ledger_entries
           /\ ledger_idempotency_keys' = ledger_idempotency_keys
           /\ auto_increment' = auto_increment
           /\ Returns(c) => \/ result'[c] = Returned(1, TRUE, NoError)
                            \/ result'[c] = Returned(0, FALSE, ErrStorage)

C34_ReplayAfterSoftDelete == [][C34_Step]_vars

\* Entry 1 was soft-deleted by a call of this run, and a create call made
\* with "r1" was answered (1, true); entry 1 is still deleted and the only
\* entries are the two the store started with.
C34_Witness ==
    \E c, d \in Calls :
        /\ IsDelete(d) /\ Succeeded(d) /\ request[d].EntryID = 1
        /\ ReplaysEntryOne(c)
        /\ result[c] = Returned(1, TRUE, NoError)
        /\ ledger_entries[1].deleted_at # NULL
        /\ DOMAIN ledger_entries = {1, 2}
        /\ auto_increment = 3

(***************************************************************************)
(* C35. Within one response of ListEntries the items and the total         *)
(* describe the same snapshot of the store: for a page p that needs no     *)
(* more than 64 bits of offset, the number of items equals                 *)
(* min(S, max(0, total - (p-1)*S)), also when soft deletions commit        *)
(* while the listing runs.                                                 *)
(***************************************************************************)
ItemsExpected(total, page, pageSize) ==
    LET rest == total - (page - 1) * pageSize
    IN  IF rest <= 0 THEN 0 ELSE IF rest < pageSize THEN rest ELSE pageSize

C35_ItemsAndTotalSameSnapshot ==
    \A c \in Calls :
        /\ IsListing(c)
        /\ Succeeded(c)
        /\ result[c].page.hi = 0
        => Len(result[c].items)
               = ItemsExpected(result[c].total, result[c].page.lo, result[c].page_size)

(***************************************************************************)
(* Accounts: POST /api/auth/refresh and POST /api/auth/logout.             *)
(*                                                                         *)
(* handleRefresh and handleLogout run their statements on the *sql.DB one  *)
(* after the other, each in its own implicit transaction: a statement of   *)
(* another request can commit between any two of them.  Each statement is  *)
(* one step of the request that issues it.                                 *)
(***************************************************************************)

\* The variables of the ledger, which the account handlers leave alone.
ledger ==
    << ledger_entries, ledger_idempotency_keys, auto_increment, txKey, txEntry,
       insertedID, existingID >>

\* A token as ParseToken sees it: whether signature and expiry are good, and
\* the claims type, sub, role and jti that generateToken wrote.
JWT(valid, type, sub, role, jti) ==
    [valid |-> valid, type |-> type, sub |-> sub, role |-> role, jti |-> jti]

\* The refreshToken of a body that has none, or only blanks.
BlankToken == JWT(FALSE, "", 0, "", 0)

\* generateToken: a signed token with the claims of the user; jti 0 stands
\* for a token without the claim.
generateToken(claims, tokenType, jti) ==
    JWT(TRUE, tokenType, claims.UserID, claims.Role, jti)

\* GenerateTokenPair: an access token and a refresh token whose jti is the
\* random refreshID.
GenerateTokenPair(claims, refreshID) ==
    [ AccessToken |-> generateToken(claims, "access", 0),
      RefreshToken |-> generateToken(claims, "refresh", refreshID) ]

\* ParseToken: TRUE when it returns the claims, FALSE when it returns an error.
ParseToken(token) == token.valid

\* hashToken: the SHA-256 of the token, the key of its row.
hashToken(token) == << "sha256", token >>

\* A row of users, and UserClaims of it.
UserRow(phone, role) == [phone |-> phone, role |-> role]
UserClaims(id, row) == [UserID |-> id, Phone |-> row.phone, Role |-> row.role]

\* A row of refresh_tokens as storeRefreshToken inserts it.
RefreshTokenRow(userID, expiresAt) ==
    [user_id |-> userID, expires_at |-> expiresAt, revoked_at |-> NULL]

\* The time a stored token expires at: later than every NOW() of a run.
refreshExpiry == 9

\* storeRefreshToken: the rows after the INSERT.
storeRefreshToken(rows, userID, refreshToken, expiresAt) ==
    (hashToken(refreshToken) :> RefreshTokenRow(userID, expiresAt)) @@ rows

\* Variant: revoked_at is not looked at.
isRefreshTokenActiveIgnoresRevoked(rows, refreshToken, now) ==
    /\ hashToken(refreshToken) \in DOMAIN rows
    /\ rows[hashToken(refreshToken)].expires_at > now

\* isRefreshTokenActive: a row with that hash, not revoked, not expired.
isRefreshTokenActive(rows, refreshToken, now) ==
    /\ hashToken(refreshToken) \in DOMAIN rows
    /\ rows[hashToken(refreshToken)].revoked_at = NULL
    /\ rows[hashToken(refreshToken)].expires_at > now

\* Variant: the UPDATE lacks "AND revoked_at IS NULL".
revokeRefreshTokenAgain(rows, refreshToken, now) ==
    [ h \in DOMAIN rows |->
        IF h = hashToken(refreshToken)
        THEN [rows[h] EXCEPT !.revoked_at = now]
        ELSE rows[h] ]

\* revokeRefreshToken: the rows after the UPDATE.  The rows it affected are
\* not counted.
revokeRefreshToken(rows, refreshToken, now) ==
    [ h \in DOMAIN rows |->
        IF h = hashToken(refreshToken) /\ rows[h].revoked_at = NULL
        THEN [rows[h] EXCEPT !.revoked_at = now]
        ELSE rows[h] ]

\* What the handler writes: the status, the error text and, with 200, the
\* token pair.
NoPair == [none |-> TRUE]
TokenResponse(status, error, pair) == [status |-> status, error |-> error, pair |-> pair]

RefreshRequest(token) == [Refresh |-> token]
LogoutRequest(token) == [Logout |-> token]

\* The accounts: user 1 is an admin, user 2 a member; there is no user 3.
InitialUsers ==
    (1 :> UserRow(<< "13800000001" >>, "admin")) @@ (2 :> UserRow(<< "13800000002" >>, "member"))

\* Tokens issued before the run: the pair of user 1's login, a refresh token
\* of user 2 that was revoked since, and a refresh token of a user whose
\* account is gone.
LoginPair == GenerateTokenPair(UserClaims(1, InitialUsers[1]), 10)
RevokedToken == generateToken(UserClaims(2, InitialUsers[2]), "refresh", 11)
OrphanToken == generateToken([UserID |-> 3, Phone |-> << "13800000003" >>, Role |-> "member"],
                             "refresh", 12)
ForgedToken == [LoginPair.RefreshToken EXCEPT !.valid = FALSE]

InitialRefreshTokens ==
    (hashToken(LoginPair.RefreshToken) :> RefreshTokenRow(1, refreshExpiry))
        @@ (hashToken(RevokedToken) :> [RefreshTokenRow(2, refreshExpiry) EXCEPT !.revoked_at = 1])
        @@ (hashToken(OrphanToken) :> RefreshTokenRow(3, refreshExpiry))

\* The pairs the run has handed out so far.
IssuedPairs ==
    { result[d].pair : d \in { e \in Calls : /\ pc[e] = "responded"
                                            /\ "pair" \in DOMAIN result[e]
                                            /\ result[e].status = 200 } }

\* The tokens a client can present: those issued before and during the run,
\* a forged one and none.
PresentedTokens ==
    { LoginPair.RefreshToken, LoginPair.AccessToken, RevokedToken, OrphanToken,
      ForgedToken, BlankToken }
        \cup { pair.RefreshToken : pair \in IssuedPairs }
        \cup { pair.AccessToken : pair \in IssuedPairs }

\* writeErr / writeJSON: the handler answers and the request is over.
Answer(c, resp) ==
    /\ pc' = [pc EXCEPT ![c] = "responded"]
    /\ result' = [result EXCEPT ![c] = resp]
    /\ input' = [input EXCEPT ![c] = NoInput]

\* handleRefresh up to its first statement: the body is decoded, the token
\* parsed and its type looked at.
RefreshRoute(c) ==
    /\ pc[c] = "idle"
    /\ \A d \in Calls : d < c => pc[d] # "idle"
    /\ \E token \in PresentedTokens :
          /\ request' = [request EXCEPT ![c] = RefreshRequest(token)]
          /\ IF token = BlankToken
             THEN Answer(c, TokenResponse(400, << "refreshToken", "is", "required" >>, NoPair))
             ELSE IF ~ParseToken(token)
             THEN Answer(c, TokenResponse(401, << "invalid", "refresh", "token" >>, NoPair))
             ELSE IF token.type # "refresh"
             THEN Answer(c, TokenResponse(401, << "invalid", "refresh", "token", "type" >>,
                                          NoPair))
             ELSE /\ pc' = [pc EXCEPT ![c] = "isActive"]
                  /\ UNCHANGED << input, result >>
    /\ UNCHANGED << ledger, auth >>

\* isRefreshTokenActive: the SELECT.
IsRefreshTokenActive(c) ==
    /\ pc[c] = "isActive"
    /\ \E now \in Times :
          IF isRefreshTokenActive(refresh_tokens, request[c].Refresh, now)
          THEN /\ pc' = [pc EXCEPT ![c] = "findUser"]
               /\ UNCHANGED << input, result >>
          ELSE Answer(c, TokenResponse(401, << "refresh", "token", "is", "revoked", "or",
                                            "expired" >>, NoPair))
    /\ UNCHANGED << ledger, auth, request >>

\* isRefreshTokenActive fails.
IsRefreshTokenActiveError(c) ==
    /\ pc[c] = "isActive"
    /\ Answer(c, TokenResponse(500, << "failed", "to", "validate", "refresh", "token" >>,
                               NoPair))
    /\ UNCHANGED << ledger, auth, request >>

\* findUserByID with the sub of the token: no row, or any other error, is
\* answered 401.
FindUserByID(c) ==
    /\ pc[c] = "findUser"
    /\ IF request[c].Refresh.sub \in DOMAIN users
       THEN /\ input' = [input EXCEPT ![c] =
                   UserClaims(request[c].Refresh.sub, users[request[c].Refresh.sub])]
            /\ pc' = [pc EXCEPT ![c] = "revoke"]
            /\ UNCHANGED result
       ELSE Answer(c, TokenResponse(401, << "user", "not", "found" >>, NoPair))
    /\ UNCHANGED << ledger, auth, request >>

FindUserByIDError(c) ==
    /\ pc[c] = "findUser"
    /\ Answer(c, TokenResponse(401, << "user", "not", "found" >>, NoPair))
    /\ UNCHANGED << ledger, auth, request >>

\* revokeRefreshToken: the UPDATE.
RevokeRefreshToken(c) ==
    /\ pc[c] = "revoke"
    /\ \E now \in Times :
          refresh_tokens' = revokeRefreshToken(refresh_tokens, request[c].Refresh, now)
    /\ pc' = [pc EXCEPT ![c] = "store"]
    /\ UNCHANGED << ledger, users, request, input, result >>

RevokeRefreshTokenError(c) ==
    /\ pc[c] = "revoke"
    /\ Answer(c, TokenResponse(500, << "failed", "to", "rotate", "refresh", "token" >>,
                               NoPair))
    /\ UNCHANGED << ledger, auth, request >>

\* GenerateTokenPair and storeRefreshToken: the new refresh token is stored
\* and the pair is the answer.  The refreshID is random: each request draws
\* its own.
StoreRefreshToken(c) ==
    /\ pc[c] = "store"
    /\ LET tokenPair == GenerateTokenPair(input[c], c)
       IN  /\ refresh_tokens' = storeRefreshToken(refresh_tokens, input[c].UserID,
                                                  tokenPair.RefreshToken, refreshExpiry)
           /\ Answer(c, TokenResponse(200, << >>, tokenPair))
    /\ UNCHANGED << ledger, users, request >>

\* GenerateTokenPair or storeRefreshToken fails.
StoreRefreshTokenError(c) ==
    /\ pc[c] = "store"
    /\ \E text \in { << "failed", "to", "generate", "token" >>,
                     << "failed", "to", "persist", "refresh", "token" >> } :
          Answer(c, TokenResponse(500, text, NoPair))
    /\ UNCHANGED << ledger, auth, request >>

\* handleLogout up to its statement: the token is parsed, its type is not
\* looked at.
LogoutRoute(c) ==
    /\ pc[c] = "idle"
    /\ \A d \in Calls : d < c => pc[d] # "idle"
    /\ \E token \in PresentedTokens :
          /\ request' = [request EXCEPT ![c] = LogoutRequest(token)]
          /\ IF token = BlankToken
             THEN Answer(c, TokenResponse(400, << "refreshToken", "is", "required" >>, NoPair))
             ELSE IF ~ParseToken(token)
             THEN Answer(c, TokenResponse(401, << "invalid", "refresh", "token" >>, NoPair))
             ELSE /\ pc' = [pc EXCEPT ![c] = "logout"]
                  /\ UNCHANGED << input, result >>
    /\ UNCHANGED << ledger, auth >>

\* handleLogout: revokeRefreshToken, then 204.
RevokeOnLogout(c) ==
    /\ pc[c] = "logout"
    /\ \E now \in Times :
          refresh_tokens' = revokeRefreshToken(refresh_tokens, request[c].Logout, now)
    /\ Answer(c, TokenResponse(204, << >>, NoPair))
    /\ UNCHANGED << ledger, users, request >>

RevokeOnLogoutError(c) ==
    /\ pc[c] = "logout"
    /\ Answer(c, TokenResponse(500, << "failed", "to", "logout" >>, NoPair))
    /\ UNCHANGED << ledger, auth, request >>

InitRefresh ==
    /\ ledger_entries = EmptyTable
    /\ ledger_idempotency_keys = EmptyTable
    /\ auto_increment = 1
    /\ pc = [c \in Calls |-> "idle"]
    /\ input = [c \in Calls |-> NoInput]
    /\ request = [c \in Calls |-> NoRequest]
    /\ txKey = [c \in Calls |-> NoRow]
    /\ txEntry = [c \in Calls |-> NoRow]
    /\ insertedID = [c \in Calls |-> 0]
    /\ existingID = [c \in Calls |-> 0]
    /\ result = [c \in Calls |-> NoResult]
    /\ users = InitialUsers
    /\ refresh_tokens = InitialRefreshTokens

NextRefresh ==
    \E c \in Calls :
        \/ RefreshRoute(c)
        \/ IsRefreshTokenActive(c)
        \/ IsRefreshTokenActiveError(c)
        \/ FindUserByID(c)
        \/ FindUserByIDError(c)
        \/ RevokeRefreshToken(c)
        \/ RevokeRefreshTokenError(c)
        \/ StoreRefreshToken(c)
        \/ StoreRefreshTokenError(c)
        \/ LogoutRoute(c)
        \/ RevokeOnLogout(c)
        \/ RevokeOnLogoutError(c)

\* Concurrent refresh and logout requests.
SpecRefresh == InitRefresh /\ [][NextRefresh]_vars

\* The request is a refresh (a logout) request.
IsRefresh(c) == Started(c) /\ "Refresh" \in DOMAIN request[c]
IsLogout(c) == Started(c) /\ "Logout" \in DOMAIN request[c]

\* The request was answered 200 with a token pair.
ObtainedPair(c) == pc[c] = "responded" /\ result[c].status = 200 /\ result[c].pair # NoPair

(***************************************************************************)
(* C36. Refresh tokens are single-use under concurrency: of the refresh    *)
(* requests that present one refresh token, at most one obtains a token    *)
(* pair.                                                                   *)
(***************************************************************************)
C36_SingleUse ==
    \A c, d \in Calls :
        /\ IsRefresh(c) /\ IsRefresh(d)
        /\ request[c].Refresh = request[d].Refresh
        /\ ObtainedPair(c) /\ ObtainedPair(d)
        => c = d

(***************************************************************************)
(* C37. Once a refresh token has been redeemed by a refresh or revoked by  *)
(* a logout, revocation is never undone: no step removes a row of          *)
(* refresh_tokens or changes a row whose revoked_at is set.  A refresh     *)
(* request that presents the token afterwards, that is, whose              *)
(* isRefreshTokenActive runs on the revoked row, is answered 401 (500 when *)
(* that statement fails), obtains no tokens and stores none.               *)
(***************************************************************************)
Revoked(token) ==
    /\ hashToken(token) \in DOMAIN refresh_tokens
    /\ refresh_tokens[hashToken(token)].revoked_at # NULL

C37_Step ==
    /\ \A h \in DOMAIN refresh_tokens :
          /\ h \in DOMAIN refresh_tokens'
          /\ refresh_tokens[h].revoked_at # NULL => refresh_tokens'[h] = refresh_tokens[h]
    /\ \A c \in Calls :
          /\ pc[c] = "isActive"
          /\ pc'[c] # pc[c]
          /\ Revoked(request[c].Refresh)
          => /\ pc'[c] = "responded"
             /\ result'[c].pair = NoPair
             /\ \/ result'[c].status = 401
                \/ /\ result'[c].status = 500
                   /\ result'[c].error = << "failed", "to", "validate", "refresh", "token" >>
             /\ refresh_tokens' = refresh_tokens

C37_RevokedStaysRevoked == [][C37_Step]_vars

\* User 1's refresh token was redeemed by a refresh that obtained a pair,
\* and the refresh request that presented it afterwards was answered 401.
C37_Witness ==
    \E c, d \in Calls :
        /\ c < d
        /\ IsRefresh(c) /\ IsRefresh(d)
        /\ request[c].Refresh = LoginPair.RefreshToken
        /\ request[d].Refresh = LoginPair.RefreshToken
        /\ ObtainedPair(c)
        /\ pc[d] = "responded"
        /\ result[d] = TokenResponse(401, << "refresh", "token", "is", "revoked", "or",
                                            "expired" >>, NoPair)
        /\ Cardinality(DOMAIN refresh_tokens) = 4

\* The same after a logout: the token was revoked by handleLogout and the
\* refresh that presented it was answered 401.
C37_WitnessLogout ==
    \E c, d \in Calls :
        /\ IsLogout(c) /\ IsRefresh(d)
        /\ request[c].Logout = LoginPair.RefreshToken
        /\ request[d].Refresh = LoginPair.RefreshToken
        /\ pc[c] = "responded" /\ result[c].status = 204
        /\ pc[d] = "responded" /\ result[d].status = 401
        /\ Revoked(LoginPair.RefreshToken)
        /\ Cardinality(DOMAIN refresh_tokens) = 3

(***************************************************************************)
(* Accounts: POST /api/admin/init, InitFirstAdmin.                         *)
(*                                                                         *)
(* InitFirstAdmin runs countAdmins, findUserByPhone and then the UPDATE or *)
(* the INSERT of createUser, each as a statement of its own on the         *)
(* *sql.DB: no transaction holds them together.                            *)
(***************************************************************************)

\* normalizePhone
normalizePhone(phone) == TrimSpace(phone)

\* countAdmins: SELECT COUNT(1) FROM users WHERE role = 'admin'.
countAdmins(rows) == Cardinality({ id \in DOMAIN rows : rows[id].role = "admin" })

\* findUserByPhone: the ids of the rows with that phone (uk_users_phone: at
\* most one).
findUserByPhone(rows, phone) == { id \in DOMAIN rows : rows[id].phone = phone }

\* createUser: errDuplicatePhone when uk_users_phone turns the INSERT down,
\* else the new row under the next AUTO_INCREMENT id (no row is ever
\* deleted).
createUser(rows, phone, role) ==
    IF findUserByPhone(rows, phone) # {}
    THEN [err |-> "errDuplicatePhone", rows |-> rows]
    ELSE [ err |-> NoError,
           rows |-> (Cardinality(DOMAIN rows) + 1 :> UserRow(phone, role)) @@ rows ]

\* UPDATE users SET role = 'admin' WHERE id = ?
promoteUser(rows, id) ==
    [ u \in DOMAIN rows |-> IF u = id THEN [rows[u] EXCEPT !.role = "admin"] ELSE rows[u] ]

AdminInitRequest(phone, password) == [Phone |-> phone, Password |-> password]
StatusResponse(status, error) == [status |-> status, error |-> error]

\* The bodies sent: the phone of the member, a new phone, another new phone
\* with blanks around it, a blank phone; a password or none.
AdminInitPhones ==
    { << "13800000002" >>, << "13800000005" >>, << " ", "13800000006", " " >>, << " " >> }
AdminInitPasswords == { << "secret" >>, << >> }

\* handleAdminInit and InitFirstAdmin up to the first statement.
AdminInitRoute(c) ==
    /\ pc[c] = "idle"
    /\ \A d \in Calls : d < c => pc[d] # "idle"
    /\ \E phone \in AdminInitPhones, password \in AdminInitPasswords :
          /\ request' = [request EXCEPT ![c] =
                AdminInitRequest(normalizePhone(phone), TrimSpace(password))]
          /\ IF normalizePhone(phone) = << >> \/ TrimSpace(password) = << >>
             THEN Answer(c, StatusResponse(400, << "phone", "and", "password", "are",
                                                  "required" >>))
             ELSE /\ pc' = [pc EXCEPT ![c] = "countAdmins"]
                  /\ UNCHANGED << input, result >>
    /\ UNCHANGED << ledger, auth >>

\* countAdmins: with an admin in the table the call is done.
CountAdmins(c) ==
    /\ pc[c] = "countAdmins"
    /\ IF countAdmins(users) > 0
       THEN Answer(c, StatusResponse(200, << >>))
       ELSE /\ pc' = [pc EXCEPT ![c] = "findUserByPhone"]
            /\ UNCHANGED << input, result >>
    /\ UNCHANGED << ledger, auth, request >>

\* findUserByPhone: an admin of that phone ends the call, another user of
\* that phone is promoted, no user is created.
FindUserByPhone(c) ==
    /\ pc[c] = "findUserByPhone"
    /\ LET found == findUserByPhone(users, request[c].Phone)
       IN  IF found = {}
           THEN /\ pc' = [pc EXCEPT ![c] = "createUser"]
                /\ UNCHANGED << input, result >>
           ELSE \E id \in found :
                   IF users[id].role = "admin"
                   THEN Answer(c, StatusResponse(200, << >>))
                   ELSE /\ pc' = [pc EXCEPT ![c] = "promote"]
                        /\ input' = [input EXCEPT ![c] = [ID |-> id]]
                        /\ UNCHANGED result
    /\ UNCHANGED << ledger, auth, request >>

\* UPDATE users SET role = 'admin' WHERE id = ?
PromoteUser(c) ==
    /\ pc[c] = "promote"
    /\ users' = promoteUser(users, input[c].ID)
    /\ Answer(c, StatusResponse(200, << >>))
    /\ UNCHANGED << ledger, refresh_tokens, request >>

\* HashPassword and createUser with the role admin: errDuplicatePhone is no
\* error of InitFirstAdmin.
CreateUser(c) ==
    /\ pc[c] = "createUser"
    /\ users' = createUser(users, request[c].Phone, "admin").rows
    /\ Answer(c, StatusResponse(200, << >>))
    /\ UNCHANGED << ledger, refresh_tokens, request >>

\* A statement of InitFirstAdmin, or HashPassword, fails.
AdminInitError(c) ==
    /\ pc[c] \in {"countAdmins", "findUserByPhone", "promote", "createUser"}
    /\ Answer(c, StatusResponse(500, << "failed", "to", "init", "admin" >>))
    /\ UNCHANGED << ledger, auth, request >>

\* The accounts before the first admin: one member.
InitAdminInit ==
    /\ ledger_entries = EmptyTable
    /\ ledger_idempotency_keys = EmptyTable
    /\ auto_increment = 1
    /\ pc = [c \in Calls |-> "idle"]
    /\ input = [c \in Calls |-> NoInput]
    /\ request = [c \in Calls |-> NoRequest]
    /\ txKey = [c \in Calls |-> NoRow]
    /\ txEntry = [c \in Calls |-> NoRow]
    /\ insertedID = [c \in Calls |-> 0]
    /\ existingID = [c \in Calls |-> 0]
    /\ result = [c \in Calls |-> NoResult]
    /\ users = (1 :> UserRow(<< "13800000002" >>, "member"))
    /\ refresh_tokens = EmptyTable

NextAdminInit ==
    \E c \in Calls :
        \/ AdminInitRoute(c)
        \/ CountAdmins(c)
        \/ FindUserByPhone(c)
        \/ PromoteUser(c)
        \/ CreateUser(c)
        \/ AdminInitError(c)

\* Concurrent calls of POST /api/admin/init.
SpecAdminInit == InitAdminInit /\ [][NextAdminInit]_vars

IsAdminInit(c) == Started(c) /\ "Password" \in DOMAIN request[c]

(***************************************************************************)
(* C38. InitFirstAdmin creates or promotes a user only when no admin       *)
(* exists: a step of a call changes the users table only in a state        *)
(* without an admin, and whatever the interleaving of concurrent calls,    *)
(* also of calls with different phones, the table holds at most one admin. *)
(***************************************************************************)
C38_Step ==
    users' # users => countAdmins(users) = 0

C38_AtMostOneAdmin == countAdmins(users) <= 1

C38_FirstAdminOnly == []C38_AtMostOneAdmin /\ [][C38_Step]_vars

\* Two calls have answered 200 and the table holds two admins.
C38_TwoAdmins ==
    /\ countAdmins(users) = 2
    /\ \A c \in Calls : pc[c] = "responded" /\ result[c].status = 200

(***************************************************************************)
(* The protected routes and the refresh route side by side: the tokens of  *)
(* one login presented to either.                                          *)
(***************************************************************************)

RoutePing == "GET /api/admin/ping"

\* The header "Authorization: Bearer <token>" with a token of
\* GenerateTokenPair; withAuth does not look at the jti.
Authorization(token) == BearerToken(token.valid, token.type, token.sub, token.role)

\* The headers a client can send to a protected route: those of Tokens and
\* every token it holds, the refresh tokens included.
BearerTokens == Tokens \cup { Authorization(token) : token \in PresentedTokens \ {BlankToken} }

\* GET /api/admin/ping with a token: withAuth, withRole, handleAdminPing.
handleAdminPing(c, token) ==
    IF AdminOnly(token).status # 0
    THEN Refuse(c, RoutePing, RoleOf(token), AdminOnly(token))
    ELSE Refuse(c, RoutePing, RoleOf(token), Response(200, << >>, 0))

AdminPingRoute(c) ==
    /\ pc[c] = "idle"
    /\ \E token \in BearerTokens : handleAdminPing(c, token)

\* The store with the reserved record of "r1", the accounts and the refresh
\* tokens of the logins before the run.
InitTokens ==
    /\ ledger_entries = EmptyTable
    /\ ledger_idempotency_keys = ("r1" :> KeyRow(LedgerEntryTypeDonation, 1))
    /\ auto_increment = 1
    /\ pc = [c \in Calls |-> "idle"]
    /\ input = [c \in Calls |-> NoInput]
    /\ request = [c \in Calls |-> NoRequest]
    /\ txKey = [c \in Calls |-> NoRow]
    /\ txEntry = [c \in Calls |-> NoRow]
    /\ insertedID = [c \in Calls |-> 0]
    /\ existingID = [c \in Calls |-> 0]
    /\ result = [c \in Calls |-> NoResult]
    /\ users = InitialUsers
    /\ refresh_tokens = InitialRefreshTokens

NextTokens ==
    \/ NextAPI
    \/ NextRefresh
    \/ \E c \in Calls : AdminPingRoute(c)

\* Every route of registerRoutes that takes a token.
SpecTokens == InitTokens /\ [][NextTokens]_vars

\* The header carries a token that parses and was issued as a refresh token.
IsRefreshBearer(token) ==
    token.scheme = "Bearer" /\ token.valid /\ token.type = "refresh"

\* The step serves a request of call c to a protected route whose header
\* carries a refresh token.
RefreshTokenAsBearer(c) ==
    \/ \E req \in DonationRequests : IsRefreshBearer(req.token) /\ handleCreateDonation(c, req)
    \/ \E req \in ExpenseRequests : IsRefreshBearer(req.token) /\ handleCreateExpense(c, req)
    \/ \E token \in Tokens, id \in {0} \cup EntryIDs :
          IsRefreshBearer(token) /\ handleDeleteEntryRequest(c, token, id)
    \/ \E token \in Tokens, type \in TypeFilters :
          IsRefreshBearer(token) /\ handleLedgerEntries(c, token, type)
    \/ \E token \in Tokens, month \in { p.at : p \in Payloads } :
          IsRefreshBearer(token) /\ handleSummary(c, token, month)
    \/ \E token \in BearerTokens : IsRefreshBearer(token) /\ handleAdminPing(c, token)

\* The step serves a refresh request of call c that presents an access
\* token.
AccessTokenAsRefresh(c) ==
    /\ RefreshRoute(c)
    /\ ParseToken(request'[c].Refresh)
    /\ request'[c].Refresh.type = "access"

(***************************************************************************)
(* C39. Token types are not interchangeable: a request to a protected      *)
(* route whose Bearer token is a refresh token is answered 401 by withAuth *)
(* and reaches no handler (nothing is read or written, the call is over),  *)
(* and a refresh request that presents an access token is answered 401     *)
(* and issues no tokens (no pair in the answer, no row stored, no token    *)
(* revoked).                                                               *)
(***************************************************************************)
C39_Step ==
    \A c \in Calls :
        /\ (Served(c) /\ RefreshTokenAsBearer(c))
              => /\ pc'[c] = "responded"
                 /\ result'[c] = Response(401, << "invalid", "access", "token", "type" >>, 0)
                 /\ UNCHANGED << ledger, auth, input >>
        /\ (Served(c) /\ AccessTokenAsRefresh(c))
              => /\ pc'[c] = "responded"
                 /\ result'[c] = TokenResponse(401, << "invalid", "refresh", "token",
                                                      "type" >>, NoPair)
                 /\ UNCHANGED << ledger, auth >>

C39_TokenTypesNotInterchangeable == [][C39_Step]_vars

\* One call sent the refresh token of the login to a protected route, the
\* other the access token of the login to the refresh route: both were
\* answered 401 and the stored tokens are as they were.
C39_Witness ==
    /\ \E c \in Calls :
          /\ pc[c] = "responded"
          /\ "Route" \in DOMAIN request[c]
          /\ result[c] = Response(401, << "invalid", "access", "token", "type" >>, 0)
    /\ \E c \in Calls :
          /\ IsRefresh(c)
          /\ request[c].Refresh = LoginPair.AccessToken
          /\ pc[c] = "responded"
          /\ result[c].status = 401
    /\ refresh_tokens = InitialRefreshTokens

\* An access token obtained by a refresh during the run was sent to the
\* refresh route and answered 401.
C39_WitnessIssued ==
    \E c, d \in Calls :
        /\ IsRefresh(d)
        /\ ObtainedPair(d)
        /\ IsRefresh(c)
        /\ request[c].Refresh = result[d].pair.AccessToken
        /\ pc[c] = "responded"
        /\ result[c].status = 401

====
